---------------------------- MODULE Spec2Model ----------------------------
(***************************************************************************)
(* A model of the iKitchen sales pipeline:                                 *)
(*   - the POS ingestion path (src/src/process_pos_data.py, src/src/db.py, *)
(*     src/src/utils.py), a state machine over the store's two tables and  *)
(*     the position of the run of process_pos_data in progress;            *)
(*   - the pure helpers of both paths (phone standardisation, money        *)
(*     cleaning, meal periods, order-type buckets, the daily report),      *)
(*     each applied to inputs drawn from bounded sets.                     *)
(*                                                                         *)
(* Text is a sequence of one-character strings, so that stripping,         *)
(* prefix tests and substring tests are computed and not assumed.          *)
(* Money is an integer number of hundredths; NaN is a value of its own.    *)
(***************************************************************************)
EXTENDS Integers, Sequences, FiniteSets, Bags, TLC

VARIABLES
    fn_pc,            \* position of the helper under evaluation
    fn_in,            \* its argument
    fn_out,           \* the values it returned, in order
    supabase,         \* db.supabase: the store client, or None
    customers_tbl,    \* the store's customers table: a set of records
    orders_tbl,       \* the store's orders table: a bag of records
    run,              \* the run of process_pos_data in progress, or the last one
    start_customers,  \* customers_tbl when that run started
    start_orders,     \* orders_tbl when that run started
    rerun,            \* that run's file is the file of the run before, which completed
    recovery,         \* that run's file is the file of the run before, which ended
                      \* at a failed insert of orders after a batch was stored
    runs,             \* the number of runs started
    uuids             \* the number of customer ids drawn from uuid.uuid4()

fn_vars == <<fn_pc, fn_in, fn_out>>

store_vars == <<supabase, customers_tbl, orders_tbl>>

run_vars == <<run, start_customers, start_orders, rerun, recovery, runs, uuids>>

vars == <<fn_pc, fn_in, fn_out, supabase, customers_tbl, orders_tbl,
          run, start_customers, start_orders, rerun, recovery, runs, uuids>>

-----------------------------------------------------------------------------
(* Values Python has and TLA+ has not. *)

\* Records, so that they compare with every other value of the model.
None == [none |-> TRUE]
NaN == [nan |-> TRUE]

\* The locals of process_pos_data before any run.
IdleRun ==
    [pc |-> "idle", file |-> None, final |-> <<>>, customers |-> <<>>,
     customer_id_map |-> <<>>, new_customers |-> <<>>, receipt_ids |-> <<>>,
     existing_receipt_ids |-> {}, orders |-> <<>>, i |-> 0,
     error |-> None, calls |-> <<>>]

\* No ingestion is under way: the state of the store and of the run while
\* a helper is evaluated on its own.
IngestIdle ==
    /\ supabase = None
    /\ customers_tbl = {}
    /\ orders_tbl = EmptyBag
    /\ run = IdleRun
    /\ start_customers = {}
    /\ start_orders = EmptyBag
    /\ rerun = FALSE
    /\ recovery = FALSE
    /\ runs = 0
    /\ uuids = 0

\* No helper is under evaluation.
FnIdle ==
    /\ fn_pc = "idle"
    /\ fn_in = None
    /\ fn_out = <<>>

-----------------------------------------------------------------------------
(* Text *)

Digits == {"0", "1", "2", "3", "4", "5", "6", "7", "8", "9"}

Rep(c, n) == [i \in 1..n |-> c]

\* s.startswith(p)
StartsWith(s, p) == Len(s) >= Len(p) /\ SubSeq(s, 1, Len(p)) = p

\* "".join(filter(str.isdigit, s))
FilterDigits(s) == SelectSeq(s, LAMBDA c : c \in Digits)

-----------------------------------------------------------------------------
(* utils.standardize_phone_number                                          *)
(* A phone cell is None (a missing cell, pd.isna), a number               *)
(* [num |-> digits of str(int(x))] or a string [str |-> characters].       *)

PhoneText(phone_number) ==
    IF "num" \in DOMAIN phone_number THEN phone_number.num ELSE phone_number.str

\* The branch that leaves a number carrying the country code alone is gone.
AddCountryCode_NoPrefixCheck(digits) ==
    IF StartsWith(digits, <<"0">>)
    THEN <<"8", "8", "0">> \o SubSeq(digits, 2, Len(digits))
    ELSE <<"8", "8", "0">> \o digits

AddCountryCode(digits) ==
    IF ~StartsWith(digits, <<"+", "8", "8", "0">>)
    THEN IF StartsWith(digits, <<"0">>)
         THEN <<"8", "8", "0">> \o SubSeq(digits, 2, Len(digits))
         ELSE IF StartsWith(digits, <<"8", "8", "0">>)
              THEN digits
              ELSE <<"8", "8", "0">> \o digits
    ELSE digits

\* pd.isna(phone_number) holds of None and of NaN.
standardize_phone_number(phone_number) ==
    IF phone_number \in {None, NaN} THEN None
    ELSE LET digits == FilterDigits(PhoneText(phone_number))
             with_code == AddCountryCode(digits)
             local_number == SubSeq(with_code, 4, Len(with_code))
         IN  IF Len(local_number) < 8 \/ Len(local_number) > 15
             THEN None
             ELSE [str |-> <<"+">> \o with_code]

-----------------------------------------------------------------------------
(* Phone inputs: a prefix (formatting, trunk 0, country code, or none)     *)
(* followed by a run of one digit.                                         *)

MaxPhoneBody == 16

PhonePrefixes ==
    { <<>>, <<"0">>, <<"8", "8", "0">>, <<"+", "8", "8", "0">>,
      <<"+", "8", "8", "0", " ">>, <<"0", "0">>, <<"0", "8", "8", "0">>,
      <<"8", "8", "0", "0">>, <<"8", "8">>, <<"8", "0">>, <<"+">>,
      <<"1", "-">>, <<"8", "8", "0", "8", "8", "0">> }

PhoneStrings ==
    { p \o Rep(d, n) : p \in PhonePrefixes, d \in {"0", "1", "8"},
                       n \in 0..MaxPhoneBody }

\* str(int(x)) has digits only and no leading zero.
IsIntText(s) == Len(s) > 0 /\ FilterDigits(s) = s /\ (Len(s) > 1 => s[1] # "0")

PhoneInputs ==
    {None} \cup { [str |-> s] : s \in PhoneStrings }
           \cup { [num |-> s] : s \in { t \in PhoneStrings : IsIntText(t) } }

InitFnPhone ==
    /\ IngestIdle
    /\ fn_pc = "standardize_phone_number"
    /\ fn_in \in PhoneInputs
    /\ fn_out = <<>>

\* standardize_phone_number(x)
StandardizeCall ==
    /\ fn_pc = "standardize_phone_number"
    /\ fn_out = <<>>
    /\ fn_out' = <<standardize_phone_number(fn_in)>>
    /\ UNCHANGED <<fn_pc, fn_in, store_vars, run_vars>>

\* standardize_phone_number(standardize_phone_number(x))
StandardizeAgain ==
    /\ fn_pc = "standardize_phone_number"
    /\ Len(fn_out) = 1
    /\ fn_out' = Append(fn_out, standardize_phone_number(fn_out[1]))
    /\ UNCHANGED <<fn_pc, fn_in, store_vars, run_vars>>

NextPhone == StandardizeCall \/ StandardizeAgain

SpecPhone == InitFnPhone /\ [][NextPhone]_vars

\* C4: standardize_phone_number applied to its own output returns that output.
C4_PhoneIdempotent ==
    (fn_pc = "standardize_phone_number" /\ Len(fn_out) = 2) => fn_out[2] = fn_out[1]

\* A 10 to 15 digit input carrying the 880 prefix was standardised twice.
C4_Witness ==
    /\ fn_pc = "standardize_phone_number"
    /\ Len(fn_out) = 2
    /\ fn_in # None
    /\ "str" \in DOMAIN fn_in
    /\ Len(fn_in.str) \in 10..15
    /\ FilterDigits(fn_in.str) = fn_in.str
    /\ StartsWith(fn_in.str, <<"8", "8", "0">>)
    /\ fn_out[1] # None

-----------------------------------------------------------------------------
(* Money cleaning.                                                         *)
(* A cell is NaN (a missing cell), [val |-> hundredths] (a cell the reader *)
(* already parsed as a number) or [str |-> characters].  A cleaned value   *)
(* is [val |-> hundredths] or NaN.                                         *)

DigitVal(c) ==
    CASE c = "0" -> 0 [] c = "1" -> 1 [] c = "2" -> 2 [] c = "3" -> 3 [] c = "4" -> 4
      [] c = "5" -> 5 [] c = "6" -> 6 [] c = "7" -> 7 [] c = "8" -> 8 [] c = "9" -> 9

RECURSIVE NatOf(_)
NatOf(ds) == IF ds = <<>> THEN 0
             ELSE 10 * NatOf(SubSeq(ds, 1, Len(ds) - 1)) + DigitVal(ds[Len(ds)])

AllDigits(s) == \A i \in 1..Len(s) : s[i] \in Digits

Remove(s, c) == SelectSeq(s, LAMBDA x : x # c)

UpperCase == <<"A", "B", "C", "D", "E", "F", "G", "H", "I", "J", "K", "L", "M",
               "N", "O", "P", "Q", "R", "S", "T", "U", "V", "W", "X", "Y", "Z">>

LowerCase == <<"a", "b", "c", "d", "e", "f", "g", "h", "i", "j", "k", "l", "m",
               "n", "o", "p", "q", "r", "s", "t", "u", "v", "w", "x", "y", "z">>

Lower(c) ==
    IF c \in { UpperCase[i] : i \in 1..26 }
    THEN LowerCase[CHOOSE i \in 1..26 : UpperCase[i] = c]
    ELSE c

LowerText(s) == [i \in 1..Len(s) |-> Lower(s[i])]

RECURSIVE LStrip(_)
LStrip(s) == IF s # <<>> /\ s[1] = " " THEN LStrip(Tail(s)) ELSE s

RECURSIVE RStrip(_)
RStrip(s) == IF s # <<>> /\ s[Len(s)] = " " THEN RStrip(SubSeq(s, 1, Len(s) - 1)) ELSE s

\* s.strip()
Strip(s) == RStrip(LStrip(s))

\* An unsigned decimal literal: digits, at most one point, at least one digit.
IsUnsignedDecimal(s) ==
    LET points == { i \in 1..Len(s) : s[i] = "." }
    IN  /\ Cardinality(points) <= 1
        /\ AllDigits(Remove(s, "."))
        /\ Remove(s, ".") # <<>>

\* Its value in hundredths (the inputs carry at most two decimals).
UnsignedHundredths(s) ==
    LET points == { i \in 1..Len(s) : s[i] = "." }
        p == IF points = {} THEN Len(s) + 1 ELSE CHOOSE i \in points : TRUE
        whole == SubSeq(s, 1, p - 1)
        frac == SubSeq(s, p + 1, Len(s))
        frac2 == SubSeq(frac \o <<"0", "0">>, 1, 2)
    IN  100 * NatOf(whole) + NatOf(frac2)

Unsigned(s) == IF s # <<>> /\ s[1] = "-" THEN Tail(s) ELSE s

Signed(s, n) == IF s # <<>> /\ s[1] = "-" THEN 0 - n ELSE n

IsNanLiteral(s) == LowerText(Unsigned(s)) = <<"n", "a", "n">>

\* Python's float(s) on text without blanks: a number, nan, or ValueError.
ValueError == [error |-> "ValueError"]

float(s) ==
    IF IsNanLiteral(s) THEN NaN
    ELSE IF IsUnsignedDecimal(Unsigned(s))
         THEN [val |-> Signed(s, UnsignedHundredths(Unsigned(s)))]
         ELSE ValueError

\* str(x) of a cell
CellText(cell) ==
    IF cell = NaN THEN <<"n", "a", "n">>
    ELSE IF "str" \in DOMAIN cell THEN cell.str
    ELSE <<>>

\* reporting.clean_amount (and its copy in streamlit_app.py)
clean_amount(amount_str) ==
    IF amount_str # NaN /\ "val" \in DOMAIN amount_str THEN amount_str
    ELSE LET cleaned == Strip(Remove(Remove(CellText(amount_str), ","), " "))
         IN  IF cleaned = <<>> \/ LowerText(cleaned) = <<"n", "a", "n">>
             THEN [val |-> 0]
             ELSE IF float(cleaned) = ValueError THEN [val |-> 0] ELSE float(cleaned)

\* pd.to_numeric(text, errors="coerce") of one cell.  Whether pandas accepts
\* blanks around a number differs between releases: blanks_ok is either.
to_numeric(text, blanks_ok) ==
    LET t == IF blanks_ok THEN Strip(text) ELSE text
    IN  IF float(t) = ValueError THEN NaN ELSE float(t)

\* process_pos_data.clean_money of one cell
clean_money(cell, blanks_ok) ==
    IF cell # NaN /\ "val" \in DOMAIN cell THEN cell
    ELSE to_numeric(Remove(CellText(cell), ","), blanks_ok)

\* process_ikitchen_data.clean_num of one cell
clean_num(cell, blanks_ok) ==
    IF cell # NaN /\ "val" \in DOMAIN cell THEN cell
    ELSE LET n == to_numeric(Remove(CellText(cell), ","), blanks_ok)
         IN  IF n = NaN THEN [val |-> 0] ELSE n

-----------------------------------------------------------------------------
(* Money inputs: every text of at most MaxCellLen characters over a small  *)
(* alphabet, and the cells the specification names.                        *)

MaxCellLen == 3

CellAlphabet == {"0", "1", ".", ",", " ", "-", "n", "a"}

TextsUpTo(alphabet, n) == UNION { [1..k -> alphabet] : k \in 0..n }

NamedCells ==
    { <<"1", ",", "2", "3", "4", ".", "5", "6">>,
      <<" ", "1", ",", "2", "3", "4", ".", "5", "6", " ">>,
      <<"N", "a", "N">>, <<"-", "n", "a", "n">>, <<"a", "b", "c">>,
      <<"1", "2", " ", "5", "0", "0">> }

MoneyCells ==
    {NaN} \cup { [val |-> v] : v \in {0, 123456} }
          \cup { [str |-> s] : s \in TextsUpTo(CellAlphabet, MaxCellLen) \cup NamedCells }

InitFnMoney ==
    /\ IngestIdle
    /\ fn_pc = "money"
    /\ fn_in \in MoneyCells
    /\ fn_out = <<>>

\* clean_amount(cell)
CleanAmountCall ==
    /\ fn_pc = "money"
    /\ fn_out = <<>>
    /\ fn_out' = <<[fn |-> "clean_amount", value |-> clean_amount(fn_in)]>>
    /\ UNCHANGED <<fn_pc, fn_in, store_vars, run_vars>>

\* clean_money(series) of process_pos_data, cell by cell
CleanMoneyCall ==
    /\ fn_pc = "money"
    /\ fn_out = <<>>
    /\ \E blanks_ok \in BOOLEAN :
          fn_out' = <<[fn |-> "clean_money", value |-> clean_money(fn_in, blanks_ok)]>>
    /\ UNCHANGED <<fn_pc, fn_in, store_vars, run_vars>>

\* clean_num(series) of process_ikitchen_data, cell by cell
CleanNumCall ==
    /\ fn_pc = "money"
    /\ fn_out = <<>>
    /\ \E blanks_ok \in BOOLEAN :
          fn_out' = <<[fn |-> "clean_num", value |-> clean_num(fn_in, blanks_ok)]>>
    /\ UNCHANGED <<fn_pc, fn_in, store_vars, run_vars>>

NextMoney == CleanAmountCall \/ CleanMoneyCall \/ CleanNumCall

SpecMoney == InitFnMoney /\ [][NextMoney]_vars

\* The text of a cell once commas and blanks are stripped.
StrippedCell(cell) == Remove(Remove(CellText(cell), ","), " ")

IsNumericCell(cell) ==
    \/ (cell # NaN /\ "val" \in DOMAIN cell)
    \/ (float(StrippedCell(cell)) \notin {ValueError, NaN})

\* C5: cleaning a money cell never yields a missing value: an empty, 'nan'
\* or non-numeric cell cleans to 0.0 and '1,234.56' cleans to 1234.56, in the
\* report path and in the ingestion path alike.
C5_MoneyNeverMissing ==
    (fn_pc = "money" /\ Len(fn_out) = 1) =>
        /\ fn_out[1].value # NaN
        /\ "val" \in DOMAIN fn_out[1].value
        /\ ~IsNumericCell(fn_in) => fn_out[1].value = [val |-> 0]
        /\ fn_in = [str |-> <<"1", ",", "2", "3", "4", ".", "5", "6">>]
              => fn_out[1].value = [val |-> 123456]

\* C5, for the report path's clean_num alone.
C5_ReportPathNeverMissing ==
    (fn_pc = "money" /\ Len(fn_out) = 1 /\ fn_out[1].fn = "clean_num") =>
        /\ fn_out[1].value # NaN
        /\ "val" \in DOMAIN fn_out[1].value
        /\ ~IsNumericCell(fn_in) => fn_out[1].value = [val |-> 0]
        /\ fn_in = [str |-> <<"1", ",", "2", "3", "4", ".", "5", "6">>]
              => fn_out[1].value = [val |-> 123456]


-----------------------------------------------------------------------------
(* reporting.categorize_meal_period and its copy in streamlit_app.py.      *)
(* A time of day is a record of hour, minute, second and microsecond,     *)
(* compared as datetime.time compares: field by field.                     *)

Time(h, m, sec, us) == [hour |-> h, minute |-> m, second |-> sec, microsecond |-> us]

time(hour, minute) == Time(hour, minute, 0, 0)

RECURSIVE LexLess(_, _)
LexLess(a, b) ==
    IF a = <<>> THEN FALSE
    ELSE IF a[1] # b[1] THEN a[1] < b[1]
    ELSE LexLess(Tail(a), Tail(b))

TimeLess(a, b) ==
    LexLess(<<a.hour, a.minute, a.second, a.microsecond>>,
            <<b.hour, b.minute, b.second, b.microsecond>>)

TimeLessEq(a, b) == a = b \/ TimeLess(a, b)

\* Lunch ends before 17:00:00 instead of at it.
categorize_meal_period_open_lunch(sale_time) ==
    IF sale_time = None THEN "Unknown"
    ELSE LET breakfast_start == time(6, 0)
             breakfast_end == time(12, 30)
             lunch_end == time(17, 0)
         IN  IF TimeLess(sale_time, breakfast_start) THEN "Dinner"
             ELSE IF TimeLessEq(breakfast_start, sale_time) /\ TimeLess(sale_time, breakfast_end)
                  THEN "Breakfast"
             ELSE IF TimeLessEq(breakfast_end, sale_time) /\ TimeLess(sale_time, lunch_end)
                  THEN "Lunch"
             ELSE "Dinner"

categorize_meal_period(sale_time) ==
    IF sale_time = None THEN "Unknown"
    ELSE LET breakfast_start == time(6, 0)
             breakfast_end == time(12, 30)
             lunch_end == time(17, 0)
         IN  IF TimeLess(sale_time, breakfast_start) THEN "Dinner"
             ELSE IF TimeLessEq(breakfast_start, sale_time) /\ TimeLess(sale_time, breakfast_end)
                  THEN "Breakfast"
             ELSE IF TimeLessEq(breakfast_end, sale_time) /\ TimeLessEq(sale_time, lunch_end)
                  THEN "Lunch"
             ELSE "Dinner"

\* streamlit_app.categorize_meal_period
app_categorize_meal_period(sale_time) ==
    IF sale_time = None THEN "Unknown"
    ELSE LET breakfast_start == time(6, 0)
             breakfast_end == time(12, 30)
             lunch_end == time(17, 0)
         IN  IF TimeLess(sale_time, breakfast_start) THEN "Dinner"
             ELSE IF TimeLessEq(breakfast_start, sale_time) /\ TimeLess(sale_time, breakfast_end)
                  THEN "Breakfast"
             ELSE IF TimeLessEq(breakfast_end, sale_time) /\ TimeLessEq(sale_time, lunch_end)
                  THEN "Lunch"
             ELSE "Dinner"

SaleTimes ==
    {None} \cup { Time(h, m, sec, us) : h \in 0..23, m \in 0..59,
                                       sec \in {0, 1, 59}, us \in {0, 1} }

InitFnMeal ==
    /\ IngestIdle
    /\ fn_pc = "categorize_meal_period"
    /\ fn_in \in SaleTimes
    /\ fn_out = <<>>

\* reporting.categorize_meal_period(sale_time)
CategorizeCall ==
    /\ fn_pc = "categorize_meal_period"
    /\ fn_out = <<>>
    /\ fn_out' = <<[fn |-> "reporting", value |-> categorize_meal_period(fn_in)]>>
    /\ UNCHANGED <<fn_pc, fn_in, store_vars, run_vars>>

\* streamlit_app.categorize_meal_period(sale_time)
AppCategorizeCall ==
    /\ fn_pc = "categorize_meal_period"
    /\ fn_out = <<>>
    /\ fn_out' = <<[fn |-> "streamlit_app", value |-> app_categorize_meal_period(fn_in)]>>
    /\ UNCHANGED <<fn_pc, fn_in, store_vars, run_vars>>

NextMeal == CategorizeCall \/ AppCategorizeCall

SpecMeal == InitFnMeal /\ [][NextMeal]_vars

\* The period the specification gives a time of day, from its clock fields.
SpecifiedPeriod(t) ==
    IF t = None THEN "Unknown"
    ELSE IF t.hour < 6 THEN "Dinner"
    ELSE IF t.hour < 12 \/ (t.hour = 12 /\ t.minute < 30) THEN "Breakfast"
    ELSE IF t.hour < 17 \/ t = Time(17, 0, 0, 0) THEN "Lunch"
    ELSE "Dinner"

-----------------------------------------------------------------------------
(* reporting.format_report_new_style.ordertype_sums                        *)
(* ordertype_totals is a dict from raw label to amount (hundredths).       *)

\* sub in s
Contains(s, sub) ==
    \E i \in 1..(Len(s) - Len(sub) + 1) : SubSeq(s, i, i + Len(sub) - 1) = sub

Txt_delivery == <<"d", "e", "l", "i", "v", "e", "r", "y">>
Txt_eat_in == <<"e", "a", "t", " ", "i", "n">>
Txt_dine == <<"d", "i", "n", "e">>
Txt_take_away == <<"t", "a", "k", "e", " ", "a", "w", "a", "y">>
Txt_takeaway == <<"t", "a", "k", "e", "a", "w", "a", "y">>

\* The eat-in test comes before the delivery test.
OrderTypeBucket_EatInFirst(order_type) ==
    LET order_type_lower == LowerText(order_type)
    IN  IF Contains(order_type_lower, Txt_eat_in) \/ Contains(order_type_lower, Txt_dine)
        THEN "eatin"
        ELSE IF Contains(order_type_lower, Txt_delivery)
        THEN "delivery"
        ELSE IF Contains(order_type_lower, Txt_take_away)
                \/ Contains(order_type_lower, Txt_takeaway)
        THEN "takeaway"
        ELSE "eatin"

\* The accumulator one label's amount is added to (the if/elif chain).
OrderTypeBucket(order_type) ==
    LET order_type_lower == LowerText(order_type)
    IN  IF Contains(order_type_lower, Txt_delivery)
        THEN "delivery"
        ELSE IF Contains(order_type_lower, Txt_eat_in) \/ Contains(order_type_lower, Txt_dine)
        THEN "eatin"
        ELSE IF Contains(order_type_lower, Txt_take_away)
                \/ Contains(order_type_lower, Txt_takeaway)
        THEN "takeaway"
        ELSE "eatin"

\* The loop over ordertype_totals.items(), from zeroed accumulators.
RECURSIVE OrderTypeLoop(_, _, _)
OrderTypeLoop(ordertype_totals, todo, acc) ==
    IF todo = {} THEN acc
    ELSE LET order_type == CHOOSE k \in todo : TRUE
             bucket == OrderTypeBucket(order_type)
         IN  OrderTypeLoop(ordertype_totals, todo \ {order_type},
                           [acc EXCEPT ![bucket] = @ + ordertype_totals[order_type]])

ordertype_sums(ordertype_totals) ==
    OrderTypeLoop(ordertype_totals, DOMAIN ordertype_totals,
                  [eatin |-> 0, delivery |-> 0, takeaway |-> 0])

OrderTypeLabels ==
    { <<"D", "e", "l", "i", "v", "e", "r", "y">>,
      <<"H", "O", "M", "E", " ", "D", "E", "L", "I", "V", "E", "R", "Y">>,
      <<"E", "a", "t", " ", "i", "n">>,
      <<"D", "i", "n", "e", "-", "I", "n">>,
      <<"T", "a", "k", "e", " ", "a", "w", "a", "y">>,
      <<"T", "A", "K", "E", "A", "W", "A", "Y">>,
      <<"E", "a", "t", " ", "i", "n", " ", "d", "e", "l", "i", "v", "e", "r", "y">>,
      <<"D", "i", "n", "e", " ", "t", "a", "k", "e", "a", "w", "a", "y">>,
      <<"E", "a", "t", "-", "i", "n">>,
      <<"P", "i", "c", "k", "u", "p">>,
      <<>> }

MaxLabels == 2

LabelAmounts == {0, 11000, 250}

OrderTypeTotals ==
    UNION { [ks -> LabelAmounts] :
              ks \in { k \in SUBSET OrderTypeLabels : Cardinality(k) <= MaxLabels } }

InitFnOrderType ==
    /\ IngestIdle
    /\ fn_pc = "ordertype_sums"
    /\ fn_in \in OrderTypeTotals
    /\ fn_out = <<>>

\* ordertype_sums(ordertype_totals)
OrderTypeSumsCall ==
    /\ fn_pc = "ordertype_sums"
    /\ fn_out = <<>>
    /\ fn_out' = <<ordertype_sums(fn_in)>>
    /\ UNCHANGED <<fn_pc, fn_in, store_vars, run_vars>>

NextOrderType == OrderTypeSumsCall

SpecOrderType == InitFnOrderType /\ [][NextOrderType]_vars

RECURSIVE SumOf(_, _)
SumOf(f, keys) ==
    IF keys = {} THEN 0
    ELSE LET k == CHOOSE x \in keys : TRUE IN f[k] + SumOf(f, keys \ {k})

\* The bucket the specification gives a label.
SpecifiedBucket(label) ==
    LET l == LowerText(label)
        has_delivery == Contains(l, Txt_delivery)
        has_eatin == Contains(l, Txt_eat_in) \/ Contains(l, Txt_dine)
        has_takeaway == Contains(l, Txt_take_away) \/ Contains(l, Txt_takeaway)
    IN  CASE has_delivery -> "delivery"
          [] ~has_delivery /\ has_eatin -> "eatin"
          [] ~has_delivery /\ ~has_eatin /\ has_takeaway -> "takeaway"
          [] OTHER -> "eatin"

\* C7: each label's total goes to exactly one of Eat-in, Delivery, Take-away:
\* Delivery if the lower-cased label contains 'delivery', else Eat-in if it
\* contains 'eat in' or 'dine', else Take-away if it contains 'take away' or
\* 'takeaway', else Eat-in.
C7_OrderTypeBuckets ==
    (fn_pc = "ordertype_sums" /\ Len(fn_out) = 1) =>
        /\ \A b \in {"eatin", "delivery", "takeaway"} :
              fn_out[1][b] =
                  SumOf(fn_in, { k \in DOMAIN fn_in : SpecifiedBucket(k) = b })
        /\ fn_out[1].eatin + fn_out[1].delivery + fn_out[1].takeaway
              = SumOf(fn_in, DOMAIN fn_in)

\* A label matching both 'eat in' and 'delivery' and an unrecognized label
\* were summed: the first went to Delivery, the second to Eat-in.
C7_Witness ==
    /\ fn_pc = "ordertype_sums"
    /\ Len(fn_out) = 1
    /\ DOMAIN fn_in = { <<"E", "a", "t", " ", "i", "n", " ", "d", "e", "l", "i", "v", "e", "r", "y">>,
                        <<"P", "i", "c", "k", "u", "p">> }
    /\ fn_in[<<"P", "i", "c", "k", "u", "p">>] = 250
    /\ fn_out[1] = [eatin |-> 250, delivery |-> 11000, takeaway |-> 0]


-----------------------------------------------------------------------------
(* reporting.process_ikitchen_data                                         *)
(* A report file is [sales_date, columns, rows]: sales_date is what the    *)
(* metadata line gives ([day |-> n], NaN when it holds no date); columns   *)
(* is the set of column names of the table; each row maps a column to a    *)
(* cell.  A cell is NaN (missing), [str |-> text], [val |-> number] or, in *)
(* 'Sale date', a date the reader can parse: [day |-> n, time |-> t].      *)

Txt_ordered == <<"o", "r", "d", "e", "r", "e", "d">>
Txt_CO_50010 == <<"C", "O", "-", "5", "0", "0", "1", "0">>

TaxPartColumns ==
    <<"SGST amount", "CGST amount", "IGST amount", "CESS amount", "GST amount">>

\* pd.to_datetime(cell, errors='coerce'): the date, or NaN for NaT
to_datetime(cell) == IF cell # NaN /\ "day" \in DOMAIN cell THEN cell ELSE NaN

\* datetime comparison a <= b
DateTimeLessEq(a, b) ==
    a.day < b.day \/ (a.day = b.day /\ TimeLessEq(a.time, b.time))

\* reporting.parse_time_flexible
parse_time_flexible(value) ==
    IF value = NaN THEN None
    ELSE IF to_datetime(value) = NaN THEN None
    ELSE to_datetime(value).time

RECURSIVE SumSeq(_)
SumSeq(q) == IF q = <<>> THEN 0 ELSE Head(q) + SumSeq(Tail(q))

\* The indices 1..n in order, as a sequence.
Indices(n) == [i \in 1..n |-> i]

\* Amount_clean of one row
AmountClean(row, blanks_ok) == clean_num(row["Item amount"], blanks_ok).val

\* Tax_clean of one row
TaxClean(columns, row, blanks_ok) ==
    IF "Tax amount" \in columns
    THEN clean_num(row["Tax amount"], blanks_ok).val
    ELSE SumSeq([i \in 1..Len(TaxPartColumns) |->
                    IF TaxPartColumns[i] \in columns
                    THEN clean_num(row[TaxPartColumns[i]], blanks_ok).val
                    ELSE 0])

\* Tax is left out of the receipt total.
OrderTotal_NoTax(items, tax) == items

\* Order_total = Order_total_items + Tax_total
OrderTotal(items, tax) == items + tax

\* df['Status'].astype(str).str.strip().str.lower() == 'ordered'
StatusIsOrdered(cell) == LowerText(Strip(CellText(cell))) = Txt_ordered

\* The report date: the metadata date, else the earliest parseable sale date.
ReportDate(file, kept) ==
    IF file.sales_date # NaN THEN [day |-> file.sales_date.day]
    ELSE LET days == { to_datetime(file.rows[kept[i]]["Sale date"]).day :
                         i \in { j \in 1..Len(kept) :
                                   to_datetime(file.rows[kept[j]]["Sale date"]) # NaN } }
         IN  IF days = {} THEN None
             ELSE [day |-> CHOOSE d \in days : \A e \in days : d <= e]

\* start_dt <= Sale_dt <= end_dt, of one row
InWindow(cell, report_day) ==
    LET dt == to_datetime(cell)
        start_dt == [day |-> report_day.day, time |-> time(0, 0)]
        end_dt == [day |-> report_day.day + 1, time |-> time(2, 0)]
    IN  dt # NaN /\ DateTimeLessEq(start_dt, dt) /\ DateTimeLessEq(dt, end_dt)

\* The rows left by the status filter and the date window, as indices.
KeptRows(file) ==
    LET all == Indices(Len(file.rows))
        ordered == IF "Status" \in file.columns
                   THEN SelectSeq(all, LAMBDA i : StatusIsOrdered(file.rows[i]["Status"]))
                   ELSE all
    IN  IF "Sale date" \in file.columns /\ ReportDate(file, ordered) # None
        THEN SelectSeq(ordered,
                       LAMBDA i : InWindow(file.rows[i]["Sale date"], ReportDate(file, ordered)))
        ELSE ordered

\* agg 'first': the first value of the group that is not missing
First(file, idxs, col) ==
    LET present == SelectSeq(idxs, LAMBDA i : file.rows[i][col] # NaN)
    IN  IF present = <<>> THEN NaN ELSE file.rows[present[1]][col]

\* df.groupby('Receipt no').agg(...), one record per receipt number
Grouped(file, blanks_ok) ==
    LET kept == KeptRows(file)
        receipts == { file.rows[kept[i]]["Receipt no"] : i \in 1..Len(kept) } \ {NaN}
        Group(r) == SelectSeq(kept, LAMBDA i : file.rows[i]["Receipt no"] = r)
        Take(r, col) == IF col \in file.columns THEN First(file, Group(r), col) ELSE NaN
        Items(r) == SumSeq([k \in 1..Len(Group(r)) |->
                               AmountClean(file.rows[Group(r)[k]], blanks_ok)])
        Tax(r) == SumSeq([k \in 1..Len(Group(r)) |->
                             TaxClean(file.columns, file.rows[Group(r)[k]], blanks_ok)])
    IN  { [receipt_no |-> r,
           Order_total_items |-> Items(r),
           Tax_total |-> Tax(r),
           Order_total |-> OrderTotal(Items(r), Tax(r)),
           ordertype_name |-> Take(r, "Ordertype name"),
           register_name |-> Take(r, "Register name"),
           sale_date |-> Take(r, "Sale date"),
           Meal_period |-> categorize_meal_period(
                               parse_time_flexible(Take(r, "Sale date")))] : r \in receipts }

\* santorini_mask: Register name == 'CO-50010'
IsSantorini(order) ==
    order.register_name # NaN /\ CellText(order.register_name) = Txt_CO_50010

RECURSIVE SumTotals(_)
SumTotals(orders) ==
    IF orders = {} THEN 0
    ELSE LET o == CHOOSE x \in orders : TRUE IN o.Order_total + SumTotals(orders \ {o})

\* process_ikitchen_data.get_metrics
get_metrics(orders) ==
    [period_totals |->
        [mp \in { o.Meal_period : o \in orders } |->
            SumTotals({ o \in orders : o.Meal_period = mp })],
     ordertype_totals |->
        [label \in { CellText(o.ordertype_name) :
                       o \in { x \in orders : x.ordertype_name # NaN } } |->
            SumTotals({ o \in orders : o.ordertype_name # NaN
                                       /\ CellText(o.ordertype_name) = label })],
     total_sales |-> SumTotals(orders)]

process_ikitchen_data(file, blanks_ok) ==
    IF "Item amount" \notin file.columns
    THEN [error |-> "Expected 'Item amount' column not found."]
    ELSE IF "Receipt no" \notin file.columns
    THEN [error |-> "Missing 'Receipt no' column."]
    ELSE LET grouped == Grouped(file, blanks_ok)
             lahore == get_metrics({ o \in grouped : ~IsSantorini(o) })
             santorini == get_metrics({ o \in grouped : IsSantorini(o) })
         IN  [valid_sales |-> grouped,
              lahore_period_totals |-> lahore.period_totals,
              lahore_ordertype_totals |-> lahore.ordertype_totals,
              lahore_total_sales |-> lahore.total_sales,
              santorini_period_totals |-> santorini.period_totals,
              santorini_ordertype_totals |-> santorini.ordertype_totals,
              santorini_total_sales |-> santorini.total_sales]


-----------------------------------------------------------------------------
(* Report inputs: tables of at most MaxReportRows rows over two receipts,  *)
(* two registers and two labels, a register or a label possibly missing.   *)

MaxReportRows == 2

Txt_CO_50011 == <<"C", "O", "-", "5", "0", "0", "1", "1">>
Txt_Delivery == <<"D", "e", "l", "i", "v", "e", "r", "y">>
Txt_Eat_in == <<"E", "a", "t", " ", "i", "n">>

ReportColumns ==
    {"Receipt no", "Item amount", "Tax amount", "Ordertype name", "Register name"}

\* A line of receipt 1 is 60.00 with 6.00 tax (cells read as numbers), one
\* of receipt 2 is 40.00 with 4.00 (cells read as text).
ReportRow(receipt, register, label) ==
    [c \in ReportColumns |->
        CASE c = "Receipt no" -> [val |-> receipt]
          [] c = "Item amount" -> IF receipt = 1 THEN [val |-> 6000]
                                  ELSE [str |-> <<"4", "0", ".", "0", "0">>]
          [] c = "Tax amount" -> IF receipt = 1 THEN [val |-> 600] ELSE [str |-> <<"4">>]
          [] c = "Ordertype name" -> label
          [] c = "Register name" -> register]

ReportRows ==
    { ReportRow(r, g, l) :
        r \in {1, 2},
        g \in {[str |-> Txt_CO_50010], [str |-> Txt_CO_50011], NaN},
        l \in {[str |-> Txt_Delivery], [str |-> Txt_Eat_in], NaN} }

ReportFiles ==
    { [sales_date |-> [day |-> 5], columns |-> ReportColumns, rows |-> rows] :
        rows \in UNION { [1..n -> ReportRows] : n \in 0..MaxReportRows } }

InitFnReport ==
    /\ IngestIdle
    /\ fn_pc = "process_ikitchen_data"
    /\ fn_in \in ReportFiles
    /\ fn_out = <<>>

\* process_ikitchen_data(uploaded_file)
ProcessIkitchenCall ==
    /\ fn_pc = "process_ikitchen_data"
    /\ fn_out = <<>>
    /\ \E blanks_ok \in BOOLEAN : fn_out' = <<process_ikitchen_data(fn_in, blanks_ok)>>
    /\ UNCHANGED <<fn_pc, fn_in, store_vars, run_vars>>

NextReport == ProcessIkitchenCall

SpecReport == InitFnReport /\ [][NextReport]_vars

\* The rows of a file that belong to a receipt the report counts, and what
\* was first seen for the receipt of row i in a column.
CountedRows(file) ==
    { i \in { KeptRows(file)[k] : k \in 1..Len(KeptRows(file)) } :
        file.rows[i]["Receipt no"] # NaN }

FirstSeen(file, i, col) ==
    LET same == { j \in CountedRows(file) :
                    /\ file.rows[j]["Receipt no"] = file.rows[i]["Receipt no"]
                    /\ file.rows[j][col] # NaN }
    IN  IF same = {} THEN NaN
        ELSE file.rows[CHOOSE j \in same : \A k \in same : j <= k][col]

RowLocation(file, i) ==
    IF FirstSeen(file, i, "Register name") = [str |-> Txt_CO_50010]
    THEN "santorini" ELSE "lahore"

RECURSIVE SumRows(_, _)
SumRows(file, rows) ==
    IF rows = {} THEN 0
    ELSE LET i == CHOOSE x \in rows : TRUE
         IN  clean_num(file.rows[i]["Item amount"], TRUE).val
             + clean_num(file.rows[i]["Tax amount"], TRUE).val
             + SumRows(file, rows \ {i})

LocationLabelRows(file, location, label) ==
    { i \in CountedRows(file) :
        /\ RowLocation(file, i) = location
        /\ FirstSeen(file, i, "Ordertype name") = [str |-> label] }

OrderTypeTotalsOf(report, location) ==
    IF location = "santorini" THEN report.santorini_ordertype_totals
    ELSE report.lahore_ordertype_totals

\* C8: a receipt is Santorini's when its first-seen register name is
\* 'CO-50010' and Lahore's otherwise, and a location's total for a label is
\* the sum, over that location's receipts first seen with that label, of the
\* receipt's item amounts plus its line taxes.
C8_LocationOrderTypeTotals ==
    (fn_pc = "process_ikitchen_data" /\ Len(fn_out) = 1) =>
        /\ "error" \notin DOMAIN fn_out[1]
        /\ \A location \in {"lahore", "santorini"} :
              LET totals == OrderTypeTotalsOf(fn_out[1], location)
              IN  /\ DOMAIN totals =
                        { label \in {Txt_Delivery, Txt_Eat_in} :
                            LocationLabelRows(fn_in, location, label) # {} }
                  /\ \A label \in DOMAIN totals :
                        totals[label] =
                            SumRows(fn_in, LocationLabelRows(fn_in, location, label))

\* Two receipts on register CO-50010 labelled Delivery, items totalling
\* 100.00 and tax totalling 10.00: Santorini's Delivery total is 110.00.
C8_Witness ==
    /\ fn_pc = "process_ikitchen_data"
    /\ Len(fn_out) = 1
    /\ fn_in.rows = << ReportRow(1, [str |-> Txt_CO_50010], [str |-> Txt_Delivery]),
                       ReportRow(2, [str |-> Txt_CO_50010], [str |-> Txt_Delivery]) >>
    /\ fn_out[1].santorini_ordertype_totals = (Txt_Delivery :> 11000)
    /\ fn_out[1].lahore_total_sales = 0


-----------------------------------------------------------------------------
(* The POS ingestion path: utils.get_spreadsheet_data,                     *)
(* utils.validate_spreadsheet_columns and the table work of                *)
(* process_pos_data.                                                       *)
(* A POS file is [preamble, columns, rows]: preamble lines come before the *)
(* header line, columns are the header's names, each row maps a column to  *)
(* a cell.                                                                 *)

HeaderMarkers == {"Customer name", "Contact Number"}

\* The required columns of the 'servquick_columns' source.
columns_config ==
    <<"Receipt no", "Item name", "Item quantity", "Item amount",
      "Customer mobile", "Customer name", "Customer email", "Customer address",
      "Sale date", "Ordertype name", "Register name">>

\* utils.get_spreadsheet_data.dynamic_skip: the loop over skip.  A line that
\* is not the header line carries neither marker; reading past the last line
\* of a CSV file raises.
RECURSIVE dynamic_skip(_, _)
dynamic_skip(file, skip) ==
    IF skip >= file.preamble + 1 + Len(file.rows)
    THEN [error |-> "EmptyDataError", missing |-> <<>>]
    ELSE IF skip = file.preamble /\ file.columns \cap HeaderMarkers # {}
    THEN file
    ELSE dynamic_skip(file, skip + 1)

get_spreadsheet_data(file) == dynamic_skip(file, 0)

\* utils.validate_spreadsheet_columns: the missing columns, in configured order
missing_columns(data) ==
    SelectSeq(columns_config, LAMBDA col : col \notin data.columns)

validate_spreadsheet_columns(data) ==
    IF columns_config = <<>> THEN None
    ELSE IF missing_columns(data) # <<>>
    THEN [error |-> "ValueError", missing |-> missing_columns(data)]
    ELSE None

\* row.get(col)
Get(row, col) == IF col \in DOMAIN row THEN row[col] ELSE NaN

\* data.dropna(subset=["Receipt no"]), as indices
DataRows(file) ==
    SelectSeq(Indices(Len(file.rows)), LAMBDA i : file.rows[i]["Receipt no"] # NaN)

\* data.drop_duplicates("Receipt no"): the first row of each receipt number
FirstRows(file) ==
    SelectSeq(DataRows(file),
              LAMBDA i : \A j \in 1..(i - 1) :
                            file.rows[j]["Receipt no"] # file.rows[i]["Receipt no"])

\* Rows are grouped under the receipt number and the sale date of row i.
ReceiptRows_ByDate(file, i) ==
    SelectSeq(DataRows(file),
              LAMBDA j : /\ file.rows[j]["Receipt no"] = file.rows[i]["Receipt no"]
                         /\ file.rows[j]["Sale date"] = file.rows[i]["Sale date"])

\* The rows grouped under the receipt number of row i
ReceiptRows(file, i) ==
    SelectSeq(DataRows(file),
              LAMBDA j : file.rows[j]["Receipt no"] = file.rows[i]["Receipt no"])

\* sum() of a column of cleaned cells: NaN is skipped
RECURSIVE SumSkipNaN(_)
SumSkipNaN(cells) ==
    IF cells = <<>> THEN 0
    ELSE (IF Head(cells) = NaN THEN 0 ELSE Head(cells).val) + SumSkipNaN(Tail(cells))

\* Every tax column is summed, also the parts beside 'Tax amount'.
TaxColumns_All(file) ==
    SelectSeq(<<"Tax amount">> \o TaxPartColumns, LAMBDA col : col \in file.columns)

\* The tax columns process_pos_data reads
TaxColumns(file) ==
    IF "Tax amount" \in file.columns THEN <<"Tax amount">>
    ELSE SelectSeq(TaxPartColumns, LAMBDA col : col \in file.columns)

\* __Tax_line_total__ of one row
TaxLineTotal(file, row, blanks_ok) ==
    SumSkipNaN([k \in 1..Len(TaxColumns(file)) |->
                   clean_money(row[TaxColumns(file)[k]], blanks_ok)])

\* pd.to_numeric(cell, errors="coerce") of an 'Item quantity' cell
Quantity(cell, blanks_ok) ==
    IF cell # NaN /\ "val" \in DOMAIN cell THEN cell
    ELSE to_numeric(CellText(cell), blanks_ok)

\* final_data: one record per receipt number, in the order of first rows,
\* with the grouped items and the receipt totals merged in
final_data(file, blanks_ok) ==
    LET first == FirstRows(file)
        Items(i) ==
            [k \in 1..Len(ReceiptRows(file, i)) |->
                LET row == file.rows[ReceiptRows(file, i)[k]]
                IN  [item_name |-> row["Item name"],
                     quantity |-> Quantity(row["Item quantity"], blanks_ok),
                     amount |-> clean_money(row["Item amount"], blanks_ok)]]
        ItemsTotal(i) == SumSkipNaN([k \in 1..Len(Items(i)) |-> Items(i)[k].amount])
        TaxTotal(i) ==
            SumSeq([k \in 1..Len(ReceiptRows(file, i)) |->
                       TaxLineTotal(file, file.rows[ReceiptRows(file, i)[k]], blanks_ok)])
    IN  [n \in 1..Len(first) |->
            LET row == file.rows[first[n]]
            IN  [receipt_no |-> row["Receipt no"],
                 sale_date |-> row["Sale date"],
                 customer_mobile |-> Get(row, "Customer mobile"),
                 customer_name |-> Get(row, "Customer name"),
                 ordertype_name |-> row["Ordertype name"],
                 register_name |-> Get(row, "Register name"),
                 order_items |-> Items(first[n]),
                 items_total |-> ItemsTotal(first[n]),
                 tax_total |-> TaxTotal(first[n]),
                 total_with_tax |-> ItemsTotal(first[n]) + TaxTotal(first[n])]]

\* The customers list: one Customer per standardised phone, first row wins
RECURSIVE CandidateCustomers(_, _)
CandidateCustomers(final, customers) ==
    IF final = <<>> THEN customers
    ELSE LET row == Head(final)
             phone_number == standardize_phone_number(row.customer_mobile)
         IN  IF phone_number = None
                \/ \E k \in 1..Len(customers) : customers[k].phone_number = phone_number
             THEN CandidateCustomers(Tail(final), customers)
             ELSE CandidateCustomers(Tail(final),
                      Append(customers, [customer_id |-> None,
                                         name |-> row.customer_name,
                                         phone_number |-> phone_number]))

\* The date is not checked: a row with no date gets a key all the same.
format_receipt_id_NoDateCheck(row) ==
    [receipt_no |-> row.receipt_no.val,
     date |-> IF to_datetime(row.sale_date) = NaN THEN 0
              ELSE to_datetime(row.sale_date).day]

\* process_pos_data.format_receipt_id: None for a date that does not parse,
\* else the receipt number with the day of the sale (strftime drops the time)
format_receipt_id(row) ==
    IF to_datetime(row.sale_date) = NaN THEN None
    ELSE [receipt_no |-> row.receipt_no.val, date |-> to_datetime(row.sale_date).day]

\* .dropna().unique().tolist()
RECURSIVE Unique(_, _)
Unique(q, seen) ==
    IF q = <<>> THEN seen
    ELSE IF Head(q) = None \/ \E k \in 1..Len(seen) : seen[k] = Head(q)
         THEN Unique(Tail(q), seen)
         ELSE Unique(Tail(q), Append(seen, Head(q)))

receipt_ids_of(final) == Unique([n \in 1..Len(final) |-> format_receipt_id(final[n])], <<>>)

Txt_Take_away == <<"T", "a", "k", "e", " ", "a", "w", "a", "y">>
Txt_Dine_In == <<"D", "i", "n", "e", "-", "I", "n">>

\* order_type_mapping.get(label)
order_type_mapping(label) ==
    IF label = NaN \/ "str" \notin DOMAIN label THEN None
    ELSE CASE label.str = Txt_Take_away -> [str |-> Txt_Take_away]
           [] label.str = Txt_Eat_in -> [str |-> Txt_Dine_In]
           [] label.str = Txt_Delivery -> [str |-> Txt_Delivery]
           [] OTHER -> None

\* customer_id_map.get(phone)
MapGet(map, key) == IF key \in DOMAIN map THEN map[key] ELSE None

\* formatted_receipt_id in existing_receipt_ids
IsKnownReceipt(formatted_receipt_id, existing_receipt_ids) ==
    formatted_receipt_id \in existing_receipt_ids

\* The loop that builds the orders: a row with no date or a known receipt key
\* is skipped; models.Order rejects an order_type that is not a string.
RECURSIVE BuildOrders(_, _, _, _)
BuildOrders(final, existing_receipt_ids, customer_id_map, orders) ==
    IF final = <<>> THEN [orders |-> orders]
    ELSE LET row == Head(final)
             formatted_receipt_id == format_receipt_id(row)
         IN  IF formatted_receipt_id = None
                \/ IsKnownReceipt(formatted_receipt_id, existing_receipt_ids)
             THEN BuildOrders(Tail(final), existing_receipt_ids, customer_id_map, orders)
             ELSE IF order_type_mapping(row.ordertype_name) = None
             THEN [error |-> "ValidationError"]
             ELSE BuildOrders(Tail(final), existing_receipt_ids, customer_id_map,
                      Append(orders,
                          [customer_id |->
                               MapGet(customer_id_map,
                                      standardize_phone_number(row.customer_mobile)),
                           order_date |-> to_datetime(row.sale_date),
                           order_items |-> row.order_items,
                           total_amount |-> row.total_with_tax,
                           order_type |-> order_type_mapping(row.ordertype_name),
                           receipt_id |-> formatted_receipt_id,
                           location |-> IF row.register_name = [str |-> Txt_CO_50010]
                                        THEN "Santorini" ELSE "Lahore"]))

-----------------------------------------------------------------------------
(* POS inputs: files of at most MaxPosRows distinct lines out of four, and *)
(* files whose header lacks required columns.                              *)

MaxPosRows == 2

MaxRuns == 2

\* db.BATCH_SIZE is 1000 and the batch_size of get_existing_receipts_ids is
\* 100.  Both are scaled down so that files of MaxPosRows lines are inserted
\* and looked up in more than one batch.
BATCH_SIZE == 1

batch_size == 1

Txt_bad_date == <<"n", "o", "n", "e">>

PosColumns ==
    { columns_config[k] : k \in 1..Len(columns_config) } \cup {"Tax amount"}

PosRow(receipt, sale_date, mobile, name, label, register) ==
    [c \in PosColumns |->
        CASE c = "Receipt no" -> [val |-> receipt]
          [] c = "Item name" -> [str |-> <<"t", "e", "a">>]
          [] c = "Item quantity" -> [val |-> 100]
          [] c = "Item amount" -> [val |-> 6000]
          [] c = "Tax amount" -> [val |-> 600]
          [] c = "Customer mobile" -> mobile
          [] c = "Customer name" -> [str |-> name]
          [] c = "Customer email" -> NaN
          [] c = "Customer address" -> NaN
          [] c = "Sale date" -> sale_date
          [] c = "Ordertype name" -> [str |-> label]
          [] c = "Register name" -> [str |-> register]]

\* The local number 01711111111 written as text and as a number carrying
\* the country code: one canonical phone.
Mobile_A == [str |-> <<"0", "1", "7">> \o Rep("1", 8)]
Mobile_A_num == [num |-> <<"8", "8", "0", "1", "7">> \o Rep("1", 8)]
Mobile_B == [str |-> <<"0", "1", "8">> \o Rep("2", 8)]

PosRows ==
    { PosRow(1, [day |-> 5, time |-> time(13, 0)], Mobile_A, <<"A">>,
             Txt_Eat_in, Txt_CO_50010),
      PosRow(2, [day |-> 5, time |-> time(19, 0)], Mobile_A_num, <<"B">>,
             Txt_Delivery, Txt_CO_50011),
      PosRow(1, [day |-> 6, time |-> time(9, 0)], NaN, <<"C">>,
             Txt_Take_away, Txt_CO_50011),
      PosRow(3, [str |-> Txt_bad_date], Mobile_B, <<"D">>,
             Txt_Eat_in, Txt_CO_50010) }

\* The same line under a header that lacks the columns in missing.
Without(row, missing) == [c \in (DOMAIN row) \ missing |-> row[c]]

\* Headers that lack required columns.  A header with neither
\* 'Customer name' nor 'Contact Number' is not found by the reader.
DeficientHeaders ==
    { {"Item amount"},
      {"Sale date", "Register name"},
      {"Customer name"},
      {"Customer name", "Customer email"} }

\* The line the files with a deficient header carry.
DeficientRow ==
    PosRow(1, [day |-> 5, time |-> time(13, 0)], Mobile_A, <<"A">>,
           Txt_Eat_in, Txt_CO_50010)

PosFiles ==
    { [preamble |-> 1, columns |-> PosColumns, rows |-> rows] :
        rows \in { q \in UNION { [1..n -> PosRows] : n \in 1..MaxPosRows } :
                     \A i, j \in 1..Len(q) : q[i] = q[j] => i = j } }
    \cup
    { [preamble |-> 1, columns |-> PosColumns \ missing,
       rows |-> <<Without(DeficientRow, missing)>>] : missing \in DeficientHeaders }
    \cup
    { [preamble |-> 1,
       columns |-> (PosColumns \ {"Customer name"}) \cup {"Contact Number"},
       rows |-> <<[c \in (PosColumns \ {"Customer name"}) \cup {"Contact Number"} |->
                      IF c = "Contact Number" THEN Mobile_A ELSE DeficientRow[c]]>>] }

-----------------------------------------------------------------------------
(* The store, as the code reaches it: supabase.table(...).select/insert    *)
(* and supabase.rpc.  Every call either answers or raises.                 *)

\* .select("*").in_("phone_number", phone_numbers) on the customers table
SelectCustomers(tbl, phone_numbers) ==
    { c \in tbl : \E k \in 1..Len(phone_numbers) : phone_numbers[k] = c.phone_number }

\* .select("*").in_("receipt_id", batch) on the orders table
SelectOrders(tbl, batch) ==
    { o \in BagToSet(tbl) : \E k \in 1..Len(batch) : batch[k] = o.receipt_id }

\* .insert(batch) on the orders table: one stored order per element
RECURSIVE InsertOrders(_, _)
InsertOrders(tbl, batch) ==
    IF batch = <<>> THEN tbl
    ELSE InsertOrders(tbl (+) SetToBag({Head(batch)}), Tail(batch))

\* .insert(batch) on the customers table
InsertCustomers(tbl, batch) == tbl \cup { batch[k] : k \in 1..Len(batch) }

\* q[i:i + n], with i counted from 0 as in Python
Slice(q, i, n) ==
    SubSeq(q, i + 1, IF i + n < Len(q) THEN i + n ELSE Len(q))

-----------------------------------------------------------------------------
(* process_pos_data, from one store call to the next.                      *)
(* run.pc names the store call the run is about to make; run.calls is the  *)
(* log of the store calls made, each with its outcome.                     *)

\* An exception leaves process_pos_data: the run is over
Raise(r, error, step, missing) ==
    [r EXCEPT !.pc = "failed",
              !.error = [error |-> error, step |-> step, missing |-> missing]]

Called(r, op, ok, batch) ==
    [r EXCEPT !.calls = Append(@, [op |-> op, ok |-> ok, batch |-> batch])]

\* the phone numbers of a list of customers
PhoneNumbers(customers) == [k \in 1..Len(customers) |-> customers[k].phone_number]

\* The n-th identifier uuid.uuid4() returns: no two draws are equal
Uuid(n) == [uuid |-> n]

\* Every candidate is taken for new, also one the store already holds.
NewCustomers_Unfiltered(customers, existing_customers) == customers

\* batch_insert_customers: the candidates whose phone the lookup did not find
NewCustomers(customers, existing_customers) ==
    SelectSeq(customers,
              LAMBDA c : \A e \in existing_customers : e.phone_number # c.phone_number)

\* batch_insert_customers, from the answer of the lookup to the first
\* insert: the map takes the stored id of a phone the lookup found and a
\* fresh id for every new customer.
AfterCustomerLookup(r, existing_customers, drawn) ==
    LET new == NewCustomers(r.customers, existing_customers)
        new_customers == [k \in 1..Len(new) |->
                             [new[k] EXCEPT !.customer_id = Uuid(drawn + k)]]
        phones == { e.phone_number : e \in existing_customers }
                  \cup { new[k].phone_number : k \in 1..Len(new) }
    IN  [r EXCEPT
            !.pc = "insert_customers",
            !.i = 0,
            !.new_customers = new_customers,
            !.customer_id_map =
                [p \in phones |->
                    IF \E k \in 1..Len(new) : new[k].phone_number = p
                    THEN new_customers[CHOOSE k \in 1..Len(new) :
                                          /\ new[k].phone_number = p
                                          /\ \A j \in (k + 1)..Len(new) :
                                                new[j].phone_number # p].customer_id
                    ELSE (CHOOSE e \in existing_customers :
                             e.phone_number = p).customer_id]]

\* db.get_existing_customers has no handler: a store error leaves the run
CustomerLookupFailed(r) ==
    Raise(r, "StoreError", "get_existing_customers", <<>>)

\* The handler is gone: a store error in a receipt lookup leaves the run.
ReceiptBatchFailed_Raises(r) ==
    Raise(r, "StoreError", "get_existing_receipts", <<>>)

\* db.get_existing_receipts_ids, except branch: the error is printed and the
\* loop goes on with the next batch
ReceiptBatchFailed(r) == [r EXCEPT !.i = @ + batch_size]

\* The code between two store calls: a loop with no batch left is over, and
\* the run goes on to the next store call.
RECURSIVE Advance(_)
Advance(r) ==
    IF r.pc = "insert_customers" /\ r.i >= Len(r.new_customers)
    THEN Advance([r EXCEPT !.pc = "get_existing_receipts", !.i = 0,
                           !.receipt_ids = receipt_ids_of(r.final)])
    ELSE IF r.pc = "get_existing_receipts" /\ r.i >= Len(r.receipt_ids)
    THEN LET built == BuildOrders(r.final, r.existing_receipt_ids,
                                  r.customer_id_map, <<>>)
         IN  IF "error" \in DOMAIN built
             THEN Raise(r, built.error, "build_orders", <<>>)
             ELSE Advance([r EXCEPT !.pc = "insert_orders", !.i = 0,
                                    !.orders = built.orders])
    ELSE IF r.pc = "insert_orders" /\ r.i >= Len(r.orders)
    THEN [r EXCEPT !.pc = "refresh_views_analytics"]
    ELSE r

\* db.supabase when the credentials are set
Client == [client |-> TRUE]

Init ==
    /\ FnIdle
    /\ supabase \in {None, Client}
    /\ customers_tbl = {}
    /\ orders_tbl = EmptyBag
    /\ run = IdleRun
    /\ start_customers = {}
    /\ start_orders = EmptyBag
    /\ rerun = FALSE
    /\ recovery = FALSE
    /\ runs = 0
    /\ uuids = 0

\* process_pos_data(file_path), up to its first store call: the file is
\* read, its columns are validated, the table is cleaned and grouped and
\* the candidate customers are collected.
StartRun(f, blanks_ok) ==
    LET r == [IdleRun EXCEPT !.file = f]
        data == get_spreadsheet_data(f)
    IN  IF "error" \in DOMAIN data
        THEN Raise(r, data.error, "get_spreadsheet_data", <<>>)
        ELSE IF validate_spreadsheet_columns(data) # None
        THEN Raise(r, validate_spreadsheet_columns(data).error,
                   "validate_spreadsheet_columns",
                   validate_spreadsheet_columns(data).missing)
        ELSE [r EXCEPT
                !.pc = "get_existing_customers",
                !.final = final_data(data, blanks_ok),
                !.customers = CandidateCustomers(final_data(data, blanks_ok), <<>>)]

\* StartRun of every input, computed once
StartRuns == [f \in PosFiles, blanks_ok \in BOOLEAN |-> StartRun(f, blanks_ok)]

\* A call of process_pos_data(file_path): no run is in progress
Begin(f) ==
    /\ run.pc \in {"idle", "done", "failed"}
    /\ \E blanks_ok \in BOOLEAN : run' = StartRuns[f, blanks_ok]
    /\ start_customers' = customers_tbl
    /\ start_orders' = orders_tbl
    /\ rerun' = (run.pc = "done" /\ run.file = f)
    /\ recovery' = /\ run.pc = "failed"
                   /\ run.error.step = "insert_orders"
                   /\ run.file = f
                   /\ orders_tbl # start_orders
    /\ runs' = runs + 1
    /\ UNCHANGED <<fn_vars, store_vars, uuids>>

Start(f) ==
    /\ runs < MaxRuns
    /\ Begin(f)

\* batch_insert_customers, the lookup: db.get_existing_customers raises
\* when no client is configured or when the store fails; else the map is
\* built and the new customers get their ids.
GetExistingCustomers ==
    /\ run.pc = "get_existing_customers"
    /\ IF supabase = None
       THEN /\ run' = Raise(run, "ValueError", "get_existing_customers", <<>>)
            /\ UNCHANGED uuids
       ELSE \E ok \in BOOLEAN :
              LET phone_numbers == PhoneNumbers(run.customers)
                  r == Called(run, "get_existing_customers", ok, phone_numbers)
                  existing_customers == SelectCustomers(customers_tbl, phone_numbers)
              IN  IF ok
                  THEN /\ run' = Advance(AfterCustomerLookup(r, existing_customers, uuids))
                       /\ uuids' = uuids + Len(NewCustomers(run.customers,
                                                            existing_customers))
                  ELSE /\ run' = CustomerLookupFailed(r)
                       /\ UNCHANGED uuids
    /\ UNCHANGED <<fn_vars, store_vars, start_customers, start_orders, rerun, recovery,
                   runs>>

\* batch_insert_customers, one pass of the insert loop
InsertCustomersBatch ==
    /\ run.pc = "insert_customers"
    /\ \E ok \in BOOLEAN :
         LET batch == Slice(run.new_customers, run.i, BATCH_SIZE)
             r == Called(run, "insert_customers", ok, PhoneNumbers(batch))
         IN  IF ok
             THEN /\ customers_tbl' = InsertCustomers(customers_tbl, batch)
                  /\ run' = Advance([r EXCEPT !.i = @ + BATCH_SIZE])
             ELSE /\ run' = Raise(r, "StoreError", "insert_customers", <<>>)
                  /\ UNCHANGED customers_tbl
    /\ UNCHANGED <<fn_vars, supabase, orders_tbl, start_customers, start_orders,
                   rerun, recovery, runs, uuids>>

\* db.get_existing_receipts_ids, one pass of the loop; after the last pass
\* the orders are built
GetExistingReceiptsBatch ==
    /\ run.pc = "get_existing_receipts"
    /\ \E ok \in BOOLEAN :
         LET batch == Slice(run.receipt_ids, run.i, batch_size)
             r == Called(run, "get_existing_receipts", ok, batch)
             found == { o.receipt_id : o \in SelectOrders(orders_tbl, batch) }
         IN  run' =
               IF ok
               THEN Advance([r EXCEPT !.existing_receipt_ids = @ \cup found,
                                      !.i = @ + batch_size])
               ELSE Advance(ReceiptBatchFailed(r))
    /\ UNCHANGED <<fn_vars, store_vars, start_customers, start_orders, rerun, recovery,
                   runs, uuids>>

\* db.batch_insert_orders, one pass of the loop
InsertOrdersBatch ==
    /\ run.pc = "insert_orders"
    /\ \E ok \in BOOLEAN :
         LET batch == Slice(run.orders, run.i, BATCH_SIZE)
             r == Called(run, "insert_orders", ok,
                         [k \in 1..Len(batch) |-> batch[k].receipt_id])
         IN  IF ok
             THEN /\ orders_tbl' = InsertOrders(orders_tbl, batch)
                  /\ run' = Advance([r EXCEPT !.i = @ + BATCH_SIZE])
             ELSE /\ run' = Raise(r, "StoreError", "insert_orders", <<>>)
                  /\ UNCHANGED orders_tbl
    /\ UNCHANGED <<fn_vars, supabase, customers_tbl, start_customers, start_orders,
                   rerun, recovery, runs, uuids>>

\* db.refresh_views_analytics, and the return of process_pos_data
RefreshViewsAnalytics ==
    /\ run.pc = "refresh_views_analytics"
    /\ \E ok \in BOOLEAN :
         LET r == Called(run, "refresh_views_analytics", ok, <<>>)
         IN  run' = IF ok THEN [r EXCEPT !.pc = "done"]
                    ELSE Raise(r, "StoreError", "refresh_views_analytics", <<>>)
    /\ UNCHANGED <<fn_vars, store_vars, start_customers, start_orders, rerun, recovery,
                   runs, uuids>>

Next ==
    \/ \E f \in PosFiles : Start(f)
    \/ GetExistingCustomers
    \/ InsertCustomersBatch
    \/ GetExistingReceiptsBatch
    \/ InsertOrdersBatch
    \/ RefreshViewsAnalytics

Spec == Init /\ [][Next]_vars

-----------------------------------------------------------------------------
(* Properties of the ingestion path *)

\* The receipt keys of the stored orders
ReceiptKeys(tbl) == { o.receipt_id : o \in BagToSet(tbl) }

\* The elements of a sequence
Range(q) == { q[k] : k \in 1..Len(q) }

\* The store calls of the run so far that are calls of op
CallsOf(op) == SelectSeq(run.calls, LAMBDA c : c.op = op)

\* The receipt keys the run has inserted: those of its insert batches the
\* store accepted
InsertedKeys ==
    LET done == SelectSeq(CallsOf("insert_orders"), LAMBDA c : c.ok)
    IN  [k \in 1..Len(done) |-> done[k].batch]

RECURSIVE Flatten(_)
Flatten(qq) == IF qq = <<>> THEN <<>> ELSE Head(qq) \o Flatten(Tail(qq))

\* C1: when a file is ingested to completion and ingested again against
\* the resulting store, the second run finds every receipt key of the file
\* in the store, inserts no order and leaves the stored orders as they were.
C1_ReingestIsIdempotent ==
    rerun =>
        /\ orders_tbl = start_orders
        /\ CallsOf("insert_orders") = <<>>
        /\ run.pc = "done" => Range(run.receipt_ids) \subseteq run.existing_receipt_ids

\* C2: no two stored orders carry the same receipt key; a run never inserts
\* two orders with the same key, nor an order whose key was in the store
\* when the run started, also when a receipt-lookup batch has failed.
C2_ReceiptKeyUnique ==
    /\ \A o \in BagToSet(orders_tbl) : CopiesIn(o, orders_tbl) = 1
    /\ \A o1, o2 \in BagToSet(orders_tbl) : o1.receipt_id = o2.receipt_id => o1 = o2
    /\ LET keys == Flatten(InsertedKeys)
       IN  /\ \A i, j \in 1..Len(keys) : keys[i] = keys[j] => i = j
           /\ Range(keys) \cap ReceiptKeys(start_orders) = {}

\* Every receipt lookup of the run so far was answered
LookupsAnswered == \A k \in 1..Len(run.calls) :
                      run.calls[k].op = "get_existing_receipts" => run.calls[k].ok

\* What the receipt-key skip does achieve: a run whose receipt lookups were
\* all answered inserts no order whose key the store held at its start, and
\* no key twice; such a run of a file just ingested inserts nothing.
ReceiptSkipWhenLookupsAnswered ==
    LookupsAnswered =>
        /\ LET keys == Flatten(InsertedKeys)
           IN  /\ \A i, j \in 1..Len(keys) : keys[i] = keys[j] => i = j
               /\ Range(keys) \cap ReceiptKeys(start_orders) = {}
        /\ rerun => orders_tbl = start_orders /\ CallsOf("insert_orders") = <<>>

\* The customer lookup of the run was answered: the map has been built
MapBuilt ==
    /\ run.calls # <<>>
    /\ run.calls[1].op = "get_existing_customers"
    /\ run.calls[1].ok

\* C3: the customers table holds one customer per canonical phone, and a
\* stored customer is never changed; batch_insert_customers inserts only
\* customers whose phone the store did not hold, maps a phone the store
\* held to its stored id and every other candidate to an id no customer
\* has, and its map has an entry for every candidate.
C3_OneCustomerPerPhone ==
    /\ \A c1, c2 \in customers_tbl :
          (c1.phone_number = c2.phone_number \/ c1.customer_id = c2.customer_id)
              => c1 = c2
    /\ start_customers \subseteq customers_tbl
    /\ MapBuilt =>
          LET map == run.customer_id_map
              new == Range(run.new_customers)
              stored == { c.phone_number : c \in start_customers }
          IN  /\ DOMAIN map = Range(PhoneNumbers(run.customers))
              /\ \A c \in start_customers :
                    c.phone_number \in DOMAIN map => map[c.phone_number] = c.customer_id
              /\ \A c \in new :
                    /\ c.phone_number \notin stored
                    /\ c.customer_id = map[c.phone_number]
                    /\ \A e \in start_customers : e.customer_id # c.customer_id
                    /\ \A d \in new : d.customer_id = c.customer_id => d = c
              /\ customers_tbl \ start_customers \subseteq new
              /\ run.pc = "done" =>
                    \A p \in DOMAIN map :
                       \E c \in customers_tbl :
                          c.phone_number = p /\ c.customer_id = map[p]

\* A second run has met a stored customer under another spelling of the
\* phone, has added a new one, and has completed.
C3_Witness ==
    /\ run.pc = "done"
    /\ Cardinality(start_customers) = 1
    /\ Cardinality(customers_tbl) = 2
    /\ Len(run.customers) = 2
    /\ Len(run.new_customers) = 1
    /\ \E c \in start_customers :
          /\ c.name = [str |-> <<"A">>]
          /\ run.customers[1].name = [str |-> <<"B">>]
          /\ run.customer_id_map[run.customers[1].phone_number] = c.customer_id

\* C9: a run on a file that lacks a required column fails with an error
\* that names every missing column, and has made no store call: the store
\* is as it was when the run started.
C9_MissingColumnsNamed ==
    (run.file # None /\ missing_columns(run.file) # <<>>) =>
        /\ run.pc = "failed"
        /\ run.error.missing = missing_columns(run.file)
        /\ run.calls = <<>>
        /\ customers_tbl = start_customers
        /\ orders_tbl = start_orders

\* What holds of every file that lacks a required column: the run fails
\* before any store call.  The error names the missing columns when the
\* reader finds the header, that is when the header has one of the markers.
MissingColumnsAbort ==
    (run.file # None /\ missing_columns(run.file) # <<>>) =>
        /\ run.pc = "failed"
        /\ run.calls = <<>>
        /\ customers_tbl = start_customers
        /\ orders_tbl = start_orders
        /\ run.file.columns \cap HeaderMarkers # {} =>
              run.error.missing = missing_columns(run.file)

\* The run has ended with the store error of its call number k
FailedAt(k) ==
    /\ run.pc = "failed"
    /\ run.error = [error |-> "StoreError", step |-> run.calls[k].op, missing |-> <<>>]
    /\ k = Len(run.calls)

\* A store error in an insert ends the run at that call
InsertErrorsPropagate ==
    \A k \in 1..Len(run.calls) :
       (run.calls[k].op \in {"insert_customers", "insert_orders"} /\ ~run.calls[k].ok)
           => FailedAt(k)

\* C10 as stated: a store error in a lookup, of customers or of receipts,
\* does not end the run; a store error in an insert ends it, and no later
\* store call is made.
C10_LookupErrorsAbsorbed ==
    /\ \A k \in 1..Len(run.calls) :
          (run.calls[k].op \in {"get_existing_customers", "get_existing_receipts"}
           /\ ~run.calls[k].ok)
              => ~FailedAt(k)
    /\ InsertErrorsPropagate

\* C10, amended: a store error in a batch of the receipt lookup does not end
\* the run: the batch counts as empty, every later batch is still looked up
\* and the known receipts are those the answered batches found.  A store
\* error in the customer lookup or in an insert ends the run at that call.
C10_StoreErrors ==
    /\ \A k \in 1..Len(run.calls) :
          (run.calls[k].op = "get_existing_receipts" /\ ~run.calls[k].ok)
              => ~(run.pc = "failed" /\ run.error.step = "get_existing_receipts")
    /\ LET lookups == CallsOf("get_existing_receipts")
           answered == SelectSeq(lookups, LAMBDA c : c.ok)
       IN  /\ run.existing_receipt_ids =
                 ReceiptKeys(start_orders)
                    \cap Range(Flatten([k \in 1..Len(answered) |-> answered[k].batch]))
           /\ run.pc \in {"insert_orders", "refresh_views_analytics", "done"} =>
                 Flatten([k \in 1..Len(lookups) |-> lookups[k].batch]) = run.receipt_ids
    /\ \A k \in 1..Len(run.calls) :
          (run.calls[k].op = "get_existing_customers" /\ ~run.calls[k].ok)
              => FailedAt(k)
    /\ InsertErrorsPropagate

\* A run went on after a failed receipt lookup, looked up the next batch,
\* inserted a first batch of orders and ended at the store error of the
\* second.
C10_Witness ==
    /\ run.pc = "failed"
    /\ run.error.step = "insert_orders"
    /\ Len(CallsOf("get_existing_receipts")) = 2
    /\ ~CallsOf("get_existing_receipts")[1].ok
    /\ CallsOf("get_existing_receipts")[2].ok
    /\ Len(CallsOf("insert_orders")) = 2
    /\ CallsOf("insert_orders")[1].ok
    /\ BagCardinality(orders_tbl) = BagCardinality(start_orders) + 1

-----------------------------------------------------------------------------
(* The orders process_pos_data emits for a file, apart from the store:     *)
(* the file is read, cleaned and grouped and the orders are built against  *)
(* an empty set of known receipts.                                         *)

EmitOrders(file, blanks_ok) ==
    LET final == final_data(get_spreadsheet_data(file), blanks_ok)
    IN  [final |-> final,
         receipt_ids |-> receipt_ids_of(final),
         built |-> BuildOrders(final, {}, <<>>, <<>>)]

MaxOrderRows == 2

Txt_Pickup == <<"P", "i", "c", "k", "u", "p">>

\* An amount cell with the amount it stands for, in hundredths
AmountCells ==
    { [cell |-> [val |-> 6000], value |-> 6000],
      [cell |-> [str |-> <<"1", ",", "2", "3", "4", ".", "5", "6">>], value |-> 123456],
      [cell |-> NaN, value |-> 0] }

\* The tax columns of an export, each with the cell its lines carry and the
\* tax that cell stands for
TaxLayouts ==
    { <<>>,
      <<[col |-> "Tax amount", cell |-> [val |-> 600], value |-> 600]>>,
      <<[col |-> "SGST amount", cell |-> [str |-> <<"3", ".", "0", "0">>], value |-> 300],
        [col |-> "CGST amount", cell |-> [val |-> 200], value |-> 200]>>,
      <<[col |-> "Tax amount", cell |-> [val |-> 600], value |-> 600],
        [col |-> "SGST amount", cell |-> [val |-> 300], value |-> 300]>>,
      <<[col |-> "GST amount", cell |-> NaN, value |-> 0],
        [col |-> "CESS amount", cell |-> [val |-> 100], value |-> 100]>> }

OrderColumns(layout) ==
    { columns_config[k] : k \in 1..Len(columns_config) }
        \cup { layout[k].col : k \in 1..Len(layout) }

OrderRow(layout, receipt, amount, label) ==
    [c \in OrderColumns(layout) |->
        IF \E k \in 1..Len(layout) : layout[k].col = c
        THEN layout[CHOOSE k \in 1..Len(layout) : layout[k].col = c].cell
        ELSE CASE c = "Receipt no" -> [val |-> receipt]
               [] c = "Item amount" -> amount
               [] c = "Ordertype name" -> [str |-> label]
               [] c = "Sale date" -> [day |-> 5, time |-> time(13, 0)]
               [] OTHER -> DeficientRow[c]]

OrderRows(layout) ==
    { OrderRow(layout, receipt, amount.cell, label) :
        receipt \in {1, 2}, amount \in AmountCells, label \in {Txt_Eat_in, Txt_Pickup} }

OrderFiles ==
    UNION { { [preamble |-> 1, columns |-> OrderColumns(layout), rows |-> rows] :
                rows \in UNION { [1..n -> OrderRows(layout)] : n \in 1..MaxOrderRows } } :
            layout \in TaxLayouts }

InitFnOrders ==
    /\ IngestIdle
    /\ fn_pc = "build_orders"
    /\ fn_in \in OrderFiles
    /\ fn_out = <<>>

\* process_pos_data(file_path), up to the call of batch_insert_orders
EmitOrdersCall ==
    /\ fn_pc = "build_orders"
    /\ fn_out = <<>>
    /\ \E blanks_ok \in BOOLEAN : fn_out' = <<EmitOrders(fn_in, blanks_ok)>>
    /\ UNCHANGED <<fn_pc, fn_in, store_vars, run_vars>>

NextOrders == EmitOrdersCall

SpecOrders == InitFnOrders /\ [][NextOrders]_vars

\* The amount an amount cell stands for
AmountOf(cell) == (CHOOSE e \in AmountCells : e.cell = cell).value

\* The tax layout of an input file
LayoutOf(file) == CHOOSE layout \in TaxLayouts : OrderColumns(layout) = file.columns

\* The tax of one line: the consolidated column when the export has it,
\* else the sum of the parts it has, else nothing
SpecifiedLineTax(layout) ==
    IF \E k \in 1..Len(layout) : layout[k].col = "Tax amount"
    THEN layout[CHOOSE k \in 1..Len(layout) : layout[k].col = "Tax amount"].value
    ELSE SumSeq([k \in 1..Len(layout) |-> layout[k].value])

\* The lines of the file that carry a receipt number, in file order
LinesOfReceipt(file, receipt_no) ==
    SelectSeq(Indices(Len(file.rows)),
              LAMBDA i : file.rows[i]["Receipt no"] = [val |-> receipt_no])

\* C11: the total_amount of every emitted order is the sum of the pre-tax
\* amounts of the lines of its receipt number plus the sum of their line
\* taxes (the sum of the amounts alone when the export has no tax column),
\* and its items carry the pre-tax amounts of those lines, in order.
C11_OrderTotalIsItemsPlusTax ==
    (fn_pc = "build_orders" /\ fn_out # <<>> /\ "orders" \in DOMAIN fn_out[1].built) =>
        \A n \in 1..Len(fn_out[1].built.orders) :
           LET order == fn_out[1].built.orders[n]
               lines == LinesOfReceipt(fn_in, order.receipt_id.receipt_no)
               amounts == [k \in 1..Len(lines) |->
                              AmountOf(fn_in.rows[lines[k]]["Item amount"])]
               tax == SpecifiedLineTax(LayoutOf(fn_in))
           IN  /\ order.total_amount = SumSeq(amounts) + Len(lines) * tax
               /\ LayoutOf(fn_in) = <<>> => order.total_amount = SumSeq(amounts)
               /\ Len(order.order_items) = Len(lines)
               /\ \A k \in 1..Len(lines) :
                     fn_in.rows[lines[k]]["Item amount"] # NaN
                         => order.order_items[k].amount = [val |-> amounts[k]]

\* An order of two lines, 60.00 and 1,234.56, under an export that has
\* 'Tax amount' (6.00 a line) beside a tax part: 1,306.56.
C11_Witness ==
    /\ fn_pc = "build_orders"
    /\ fn_out # <<>>
    /\ "orders" \in DOMAIN fn_out[1].built
    /\ {"Tax amount", "SGST amount"} \subseteq fn_in.columns
    /\ Len(fn_out[1].built.orders) = 1
    /\ Len(fn_out[1].built.orders[1].order_items) = 2
    /\ fn_out[1].built.orders[1].order_items[2].amount = [val |-> 123456]
    /\ fn_out[1].built.orders[1].total_amount = 130656

\* C12: a receipt whose order-type label is not a key of order_type_mapping
\* does not abort the run: an order is built for every receipt, with the
\* mapped order type, or a null one for such a label.
C12_UnmappedLabelIsNull ==
    (fn_pc = "build_orders" /\ fn_out # <<>>) =>
        /\ "orders" \in DOMAIN fn_out[1].built
        /\ Len(fn_out[1].built.orders) = Len(fn_out[1].final)
        /\ \A n \in 1..Len(fn_out[1].final) :
              fn_out[1].built.orders[n].order_type =
                  order_type_mapping(fn_out[1].final[n].ordertype_name)

\* The receipt numbers of a file, and the first line of each
ReceiptNumbers(file) == { file.rows[i]["Receipt no"].val : i \in 1..Len(file.rows) }

FirstLine(file, receipt_no) ==
    file.rows[CHOOSE i \in 1..Len(file.rows) :
                 /\ file.rows[i]["Receipt no"] = [val |-> receipt_no]
                 /\ \A j \in 1..(i - 1) : file.rows[j]["Receipt no"] # [val |-> receipt_no]]

\* The cell holds a date
IsDate(cell) == "day" \in DOMAIN cell

\* The run has built its orders
OrdersBuilt ==
    \/ run.pc \in {"insert_orders", "refresh_views_analytics", "done"}
    \/ run.pc = "failed" /\ run.error.step \in {"insert_orders", "refresh_views_analytics"}

\* C13: a receipt whose sale date does not parse is skipped: no key of it
\* is looked up and no order is built for it; every other receipt of the
\* file whose key the store did not hold is built, once, and is in the
\* store when the run completes.
C13_BadDateSkipped ==
    (run.pc \notin {"idle", "get_existing_customers"} /\ run.final # <<>>) =>
        \A receipt_no \in ReceiptNumbers(run.file) :
           LET line == FirstLine(run.file, receipt_no)
               key == [receipt_no |-> receipt_no, date |-> line["Sale date"].day]
               built == { n \in 1..Len(run.orders) :
                             run.orders[n].receipt_id.receipt_no = receipt_no }
           IN  IF ~IsDate(line["Sale date"])
               THEN /\ built = {}
                    /\ \A k \in 1..Len(run.calls) :
                          run.calls[k].op \in {"get_existing_receipts", "insert_orders"}
                              => \A b \in 1..Len(run.calls[k].batch) :
                                    run.calls[k].batch[b].receipt_no # receipt_no
               ELSE (OrdersBuilt /\ key \notin ReceiptKeys(start_orders)) =>
                       /\ Cardinality(built) = 1
                       /\ \A n \in built : run.orders[n].receipt_id = key
                       /\ run.pc = "done" => key \in ReceiptKeys(orders_tbl)

\* A run of a file whose first receipt has no date and whose second has one
\* has completed with the second receipt's order in the store.
C13_Witness ==
    /\ run.pc = "done"
    /\ Len(run.final) = 2
    /\ ~IsDate(run.final[1].sale_date)
    /\ Len(run.orders) = 1
    /\ BagCardinality(orders_tbl) = BagCardinality(start_orders) + 1

-----------------------------------------------------------------------------
(* Runs of files of several dated receipts, one run more than under Spec:  *)
(* a file can be ingested, ingested again and ingested a third time.       *)

RecoveryFiles ==
    { f \in PosFiles :
         /\ f.columns = PosColumns
         /\ Len(f.rows) >= 2
         /\ \A i \in 1..Len(f.rows) : IsDate(f.rows[i]["Sale date"])
         /\ \A i, j \in 1..Len(f.rows) :
               f.rows[i]["Receipt no"] = f.rows[j]["Receipt no"] => i = j }

StartRecovery(f) ==
    /\ runs < MaxRuns + 1
    /\ Begin(f)

NextRecovery ==
    \/ \E f \in RecoveryFiles : StartRecovery(f)
    \/ GetExistingCustomers
    \/ InsertCustomersBatch
    \/ GetExistingReceiptsBatch
    \/ InsertOrdersBatch
    \/ RefreshViewsAnalytics

SpecRecovery == Init /\ [][NextRecovery]_vars

\* The receipt keys of the file of the run
FileKeys == Range(run.receipt_ids)

\* The number of stored orders that carry a receipt key
Stored(tbl, key) ==
    LET orders == { o \in BagToSet(tbl) : o.receipt_id = key }
        RECURSIVE Count(_)
        Count(left) ==
            IF left = {} THEN 0
            ELSE LET o == CHOOSE o \in left : TRUE
                 IN  CopiesIn(o, tbl) + Count(left \ {o})
    IN  Count(orders)

\* Every store call of the run so far was answered
AllCallsAnswered == \A k \in 1..Len(run.calls) : run.calls[k].ok

\* What the run after a partial insert is claimed to do
Recovered ==
    /\ Range(Flatten(InsertedKeys)) = FileKeys \ ReceiptKeys(start_orders)
    /\ \A i, j \in 1..Len(Flatten(InsertedKeys)) :
          Flatten(InsertedKeys)[i] = Flatten(InsertedKeys)[j] => i = j
    /\ \A key \in FileKeys : Stored(orders_tbl, key) = 1

\* C14: when a run ended at a failed insert of orders after some batch was
\* stored, and the next run is of the same file and all its store calls are
\* answered, that run inserts the orders of the file the store lacks, each
\* once, and none the store holds; then the store holds each receipt key
\* of the file once.
C14_PartialInsertRecovered ==
    (recovery /\ run.pc = "done" /\ AllCallsAnswered) => Recovered

\* What holds of the code: the same, when the store held no receipt key of
\* the file twice as the run started.
RecoveredWhenKeysUnique ==
    (recovery /\ run.pc = "done" /\ AllCallsAnswered
     /\ \A key \in FileKeys : Stored(start_orders, key) <= 1) => Recovered

-----------------------------------------------------------------------------
(* Reports of exports that have a 'Sale date' column: each line is a       *)
(* receipt of its own, rung at an instant around the bounds of the window  *)
(* of day 5, or at no readable instant.                                    *)

MaxWindowRows == 2

WindowInstants ==
    { [day |-> 4, time |-> Time(23, 59, 59, 0)],
      [day |-> 5, time |-> Time(0, 0, 0, 0)],
      [day |-> 5, time |-> Time(13, 0, 0, 0)],
      [day |-> 6, time |-> Time(0, 30, 0, 0)],
      [day |-> 6, time |-> Time(1, 59, 59, 0)],
      [day |-> 6, time |-> Time(2, 0, 0, 0)],
      [day |-> 6, time |-> Time(2, 0, 1, 0)],
      [day |-> 7, time |-> Time(1, 0, 0, 0)] }

WindowColumns == ReportColumns \cup {"Sale date"}

WindowRow(receipt, sale_date) ==
    [c \in WindowColumns |->
        CASE c = "Receipt no" -> [val |-> receipt]
          [] c = "Item amount" -> [val |-> 6000]
          [] c = "Tax amount" -> [val |-> 600]
          [] c = "Ordertype name" -> [str |-> Txt_Delivery]
          [] c = "Register name" -> [str |-> Txt_CO_50010]
          [] c = "Sale date" -> sale_date]

WindowFiles ==
    { [sales_date |-> sales_date, columns |-> WindowColumns,
       rows |-> [i \in 1..Len(dates) |-> WindowRow(i, dates[i])]] :
        sales_date \in {[day |-> 5], NaN},
        dates \in UNION { [1..n -> WindowInstants \cup {NaN, [str |-> Txt_bad_date]}] :
                          n \in 1..MaxWindowRows } }

InitFnWindow ==
    /\ IngestIdle
    /\ fn_pc = "daily_reports"
    /\ fn_in \in WindowFiles
    /\ fn_out = <<>>

\* process_ikitchen_data(uploaded_file), of the export of a day
ProcessDayCall ==
    /\ fn_pc = "daily_reports"
    /\ fn_out = <<>>
    /\ \E blanks_ok \in BOOLEAN : fn_out' = <<process_ikitchen_data(fn_in, blanks_ok)>>
    /\ UNCHANGED <<fn_pc, fn_in, store_vars, run_vars>>

\* process_ikitchen_data(uploaded_file), of the export of the next day,
\* which holds the same lines under the next date
ProcessNextDayCall ==
    /\ fn_pc = "daily_reports"
    /\ Len(fn_out) = 1
    /\ fn_in.sales_date # NaN
    /\ \E blanks_ok \in BOOLEAN :
         fn_out' = Append(fn_out,
                          process_ikitchen_data(
                              [fn_in EXCEPT !.sales_date = [day |-> @.day + 1]], blanks_ok))
    /\ UNCHANGED <<fn_pc, fn_in, store_vars, run_vars>>

NextWindow == ProcessDayCall \/ ProcessNextDayCall

SpecWindow == InitFnWindow /\ [][NextWindow]_vars

\* The report date of the export that was read, or None.
WindowDate == ReportDate(fn_in, Indices(Len(fn_in.rows)))

\* The receipt numbers of the receipts a report counts.
Counted(report) == { o.receipt_no.val : o \in report.valid_sales }

\* D 00:00 <= sale datetime < D+1 02:00, of one cell
InHalfOpenWindow(cell, report_day) ==
    LET dt == to_datetime(cell)
        start_dt == [day |-> report_day.day, time |-> time(0, 0)]
        end_dt == [day |-> report_day.day + 1, time |-> time(2, 0)]
    IN  dt # NaN /\ DateTimeLessEq(start_dt, dt)
        /\ DateTimeLessEq(dt, end_dt) /\ dt # end_dt

\* C15: when a report date D is resolved, a line of the export is kept
\* exactly when its sale datetime lies in [D 00:00, D+1 02:00): lines before
\* D 00:00, lines at or after D+1 02:00:00 and lines of no readable sale date
\* are dropped.
C15_WindowHalfOpen ==
    (Len(fn_out) >= 1 /\ fn_pc = "daily_reports" /\ WindowDate # None) =>
        \A i \in 1..Len(fn_in.rows) :
            (i \in Counted(fn_out[1]))
                <=> InHalfOpenWindow(fn_in.rows[i]["Sale date"], WindowDate)

\* What holds of the code: the same, the end instant D+1 02:00:00 included.
WindowClosed ==
    (Len(fn_out) >= 1 /\ fn_pc = "daily_reports" /\ WindowDate # None) =>
        \A i \in 1..Len(fn_in.rows) :
            (i \in Counted(fn_out[1]))
                <=> InWindow(fn_in.rows[i]["Sale date"], WindowDate)

\* C19: over the reports of two consecutive dates D and D+1, built from
\* exports that both hold it, a receipt is counted in at most one report.
C19_CountedInOneReport ==
    (Len(fn_out) = 2 /\ fn_pc = "daily_reports") =>
        Counted(fn_out[1]) \cap Counted(fn_out[2]) = {}

-----------------------------------------------------------------------------
(* The rows of the printed report. An amount is printed with two decimals  *)
(* (':,.2f'); amounts here are hundredths, so a row is the number printed. *)

\* format_report_new_style.getv: d.get(k, 0.0)
getv(d, k) == IF k \in DOMAIN d THEN d[k] ELSE 0

\* The rows format_report_new_style prints for one location.
format_report_new_style(report_data, location) ==
    LET period_totals == IF location = "santorini"
                         THEN report_data.santorini_period_totals
                         ELSE report_data.lahore_period_totals
        sums == ordertype_sums(OrderTypeTotalsOf(report_data, location))
    IN  [lunch |-> getv(period_totals, "Lunch"),
         dinner |-> getv(period_totals, "Dinner"),
         breakfast |-> getv(period_totals, "Breakfast"),
         eatin |-> sums.eatin,
         delivery |-> sums.delivery,
         takeaway |-> sums.takeaway,
         total_sales |-> IF location = "santorini"
                         THEN report_data.santorini_total_sales
                         ELSE report_data.lahore_total_sales]

\* A report has been produced from the file that was read.
Reported ==
    /\ fn_pc \in {"process_ikitchen_data", "daily_reports"}
    /\ Len(fn_out) >= 1
    /\ "error" \notin DOMAIN fn_out[1]

RowsSumToTotal(report_data) ==
    \A location \in {"lahore", "santorini"} :
        LET printed == format_report_new_style(report_data, location)
        IN  /\ printed.eatin + printed.delivery + printed.takeaway = printed.total_sales
            /\ printed.lunch + printed.dinner + printed.breakfast = printed.total_sales

\* C18: for each location of the printed report, Total Eat in + Total
\* Delivery + Total Take away is TOTAL SALES, and Lunch + Dinner + Breakfast
\* is TOTAL SALES, for every file, receipts of missing label or of Unknown
\* meal period included.
C18_RowsSumToTotal == Reported => RowsSumToTotal(fn_out[1])

\* What holds of the code: the same, when every counted receipt has a label
\* and a meal period other than Unknown.
RowsSumWhenLabelledAndTimed ==
    (Reported /\ \A o \in fn_out[1].valid_sales :
                    o.ordertype_name # NaN /\ o.Meal_period # "Unknown")
        => RowsSumToTotal(fn_out[1])

-----------------------------------------------------------------------------
(* The amount column. The repository has two process_ikitchen_data: the    *)
(* one of src/reporting.py, above, and the one of streamlit_app.py, which  *)
(* reads the export from its fourth line as a table.                       *)

Txt_Ordered == <<"O", "r", "d", "e", "r", "e", "d">>
Txt_Cancelled == <<"C", "a", "n", "c", "e", "l", "l", "e", "d">>

\* streamlit_app.clean_amount, in hundredths
app_clean_amount(amount_str) == clean_amount(amount_str).val

\* streamlit_app.parse_time: strptime(str(time_str), '%Y-%m-%d %H:%M:%S')
app_parse_time(time_str) ==
    IF time_str = NaN THEN None
    ELSE IF "day" \in DOMAIN time_str /\ time_str.time.microsecond = 0
    THEN time_str.time
    ELSE None

\* The columns streamlit_app.process_ikitchen_data subscripts, in the order
\* it does; the first one missing raises KeyError.
AppColumns == <<"Status", "Amount", "Sale date", "Ordertype name">>

\* streamlit_app.process_ikitchen_data, of a file of four lines or more
app_process_ikitchen_data(file) ==
    LET absent == SelectSeq(AppColumns, LAMBDA c : c \notin file.columns)
    IN  IF absent # <<>>
        THEN [error |-> "Error processing file: KeyError", key |-> absent[1]]
        ELSE LET all == Indices(Len(file.rows))
                 valid_sales == SelectSeq(all,
                                    LAMBDA i : /\ file.rows[i]["Status"] # NaN
                                               /\ CellText(file.rows[i]["Status"]) = Txt_Ordered)
                 Period(i) == app_categorize_meal_period(
                                  app_parse_time(file.rows[i]["Sale date"]))
                 Label(i) == file.rows[i]["Ordertype name"]
                 Total(rows) == SumSeq([k \in 1..Len(rows) |->
                                           app_clean_amount(file.rows[rows[k]]["Amount"])])
             IN  [valid_sales |-> valid_sales,
                  period_totals |->
                      [mp \in { Period(valid_sales[k]) : k \in 1..Len(valid_sales) } |->
                          Total(SelectSeq(valid_sales, LAMBDA i : Period(i) = mp))],
                  ordertype_totals |->
                      [label \in { Label(valid_sales[k]) : k \in 1..Len(valid_sales) } \ {NaN} |->
                          Total(SelectSeq(valid_sales, LAMBDA i : Label(i) = label))],
                  total_sales |-> Total(valid_sales)]

MaxAmountRows == 2

AmountBaseColumns ==
    {"Receipt no", "Status", "Sale date", "Ordertype name", "Register name", "Tax amount"}

\* A line of 60.00 with 6.00 tax, rung on day 5 at 13:00.
AmountRow(columns, status, amount) ==
    [c \in columns |->
        CASE c = "Receipt no" -> [val |-> 1]
          [] c = "Status" -> [str |-> status]
          [] c = "Sale date" -> [day |-> 5, time |-> time(13, 0)]
          [] c = "Ordertype name" -> [str |-> Txt_Delivery]
          [] c = "Register name" -> [str |-> Txt_CO_50010]
          [] c = "Tax amount" -> [val |-> 600]
          [] c = "Item amount" -> amount
          [] c = "Amount" -> amount]

AmountRows(columns) ==
    { AmountRow(columns, status, amount) :
        status \in {Txt_Ordered, Txt_Cancelled},
        amount \in {[val |-> 6000], NaN} }

AmountFiles ==
    UNION { { [sales_date |-> [day |-> 5], columns |-> AmountBaseColumns \cup amounts,
               rows |-> rows] :
                rows \in UNION { [1..n -> AmountRows(AmountBaseColumns \cup amounts)] :
                                 n \in 0..MaxAmountRows } } :
            amounts \in SUBSET {"Item amount", "Amount"} }

InitFnAmount ==
    /\ IngestIdle
    /\ fn_pc = "amount_column"
    /\ fn_in \in AmountFiles
    /\ fn_out = <<>>

\* reporting.process_ikitchen_data(uploaded_file)
ReportingProcessCall ==
    /\ fn_pc = "amount_column"
    /\ fn_out = <<>>
    /\ \E blanks_ok \in BOOLEAN :
         fn_out' = <<[by |-> "reporting", result |-> process_ikitchen_data(fn_in, blanks_ok)]>>
    /\ UNCHANGED <<fn_pc, fn_in, store_vars, run_vars>>

\* streamlit_app.process_ikitchen_data(uploaded_file)
AppProcessCall ==
    /\ fn_pc = "amount_column"
    /\ fn_out = <<>>
    /\ fn_out' = <<[by |-> "streamlit_app", result |-> app_process_ikitchen_data(fn_in)]>>
    /\ UNCHANGED <<fn_pc, fn_in, store_vars, run_vars>>

NextAmount == ReportingProcessCall \/ AppProcessCall

SpecAmount == InitFnAmount /\ [][NextAmount]_vars

\* C16: process_ikitchen_data returns an error result, and no report, only
\* when the file has neither 'Item amount' nor 'Amount': a file with
\* 'Amount' and no 'Item amount' still gets a report.
C16_AmountColumnResolved ==
    (fn_pc = "amount_column" /\ Len(fn_out) = 1) =>
        ("error" \in DOMAIN fn_out[1].result
            <=> fn_in.columns \cap {"Item amount", "Amount"} = {})

\* What holds of the code: the process_ikitchen_data of reporting.py reads
\* 'Item amount' only, the one of streamlit_app.py 'Amount' only.
AmountColumnOfEach ==
    (fn_pc = "amount_column" /\ Len(fn_out) = 1) =>
        ("error" \in DOMAIN fn_out[1].result
            <=> IF fn_out[1].by = "reporting"
                THEN "Item amount" \notin fn_in.columns
                ELSE "Amount" \notin fn_in.columns)

-----------------------------------------------------------------------------
(* The loop of get_spreadsheet_data, one read per step, for a CSV file and *)
(* for a spreadsheet file.                                                 *)

\* The lines of a file: the preamble, the header line and the data lines.
FileLines(file) == file.preamble + 1 + Len(file.rows)

\* The names a read that skips `skip` lines finds: those of the header line
\* when the read starts at it; any other line carries neither marker.
ColumnsAt(file, skip) == IF skip = file.preamble THEN file.columns ELSE {}

\* pd.read_csv(file_path, skiprows=skip): with no line left it raises
\* EmptyDataError.
read_csv(file, skip) ==
    IF skip >= FileLines(file)
    THEN [error |-> "EmptyDataError", missing |-> <<>>]
    ELSE [columns |-> ColumnsAt(file, skip)]

\* pd.read_excel(file_path, skiprows=skip): with no line left it returns an
\* empty DataFrame (the EmptyDataError of its parser is caught inside).
read_excel(file, skip) ==
    IF skip >= FileLines(file)
    THEN [columns |-> {}]
    ELSE [columns |-> ColumnsAt(file, skip)]

\* file_reader(file_path, skiprows=skip), by the file's extension
file_reader(kind, file, skip) ==
    IF kind = "csv" THEN read_csv(file, skip) ELSE read_excel(file, skip)

MaxPreamble == 2
MaxReaderRows == 2

\* Reads of one file that the model follows; more than any file has lines.
MaxSkip == 8

ReaderFiles ==
    { [kind |-> kind,
       file |-> [preamble |-> preamble, columns |-> PosColumns \ missing,
                 rows |-> [i \in 1..n |-> Without(DeficientRow, missing)]]] :
        kind \in {"csv", "xlsx"},
        preamble \in 0..MaxPreamble,
        missing \in {{}, {"Customer name"}},
        n \in 0..MaxReaderRows }

\* get_spreadsheet_data(file_path), at skip = 0
InitFnReader ==
    /\ IngestIdle
    /\ fn_pc = "dynamic_skip"
    /\ fn_in \in ReaderFiles
    /\ fn_out = <<0>>

\* One turn of the while loop of dynamic_skip: read, return the frame when
\* it has a marker column, else skip one more line.
DynamicSkipIteration ==
    /\ fn_pc = "dynamic_skip"
    /\ LET skip == fn_out[1]
           df == file_reader(fn_in.kind, fn_in.file, skip)
       IN  IF "error" \in DOMAIN df
           THEN fn_pc' = "raised" /\ fn_out' = <<df>>
           ELSE IF df.columns \cap HeaderMarkers # {}
           THEN fn_pc' = "returned" /\ fn_out' = <<fn_in.file>>
           ELSE /\ skip < MaxSkip
                /\ fn_pc' = fn_pc
                /\ fn_out' = <<skip + 1>>
    /\ UNCHANGED <<fn_in, store_vars, run_vars>>

NextReader == DynamicSkipIteration

SpecReader == InitFnReader /\ [][NextReader]_vars

\* C17: get_spreadsheet_data always ends, for a CSV and for a spreadsheet
\* file: the loop returns a frame that has a marker column or ends with an
\* error once the skip count exhausts the file, so it is never still
\* reading with more lines skipped than the file has.
C17_ReaderTerminates ==
    fn_pc = "dynamic_skip" => fn_out[1] <= FileLines(fn_in.file)

\* What holds of the code: the same of a CSV file, whose loop ends as
\* get_spreadsheet_data above says.
CsvReaderTerminates ==
    fn_in \in ReaderFiles /\ fn_in.kind = "csv" =>
        /\ fn_pc = "dynamic_skip" => fn_out[1] <= FileLines(fn_in.file)
        /\ fn_pc \in {"returned", "raised"} =>
              fn_out[1] = get_spreadsheet_data(fn_in.file)

-----------------------------------------------------------------------------
(* One receipt number on two sale dates in one file.                       *)

\* The lines of a file that carry a receipt number, as indices.
LinesOf(file, receipt_no) ==
    { i \in 1..Len(file.rows) : file.rows[i]["Receipt no"] = [val |-> receipt_no] }

\* The receipt keys of the lines of a receipt number other than its first.
LaterKeys(file, receipt_no) ==
    { [receipt_no |-> receipt_no, date |-> file.rows[i]["Sale date"].day] :
        i \in { j \in LinesOf(file, receipt_no) : IsDate(file.rows[j]["Sale date"]) } }
    \ { format_receipt_id([receipt_no |-> [val |-> receipt_no],
                           sale_date |-> FirstLine(file, receipt_no)["Sale date"]]) }

\* C20: when a file holds lines of one receipt number on two sale dates,
\* one order is built for them, keyed by the date of the first such line,
\* whose items and total_amount cover the lines of both dates; no key of
\* the later date is looked up in the store, built or inserted.
C20_OneOrderPerReceiptNumber ==
    (run.pc \notin {"idle", "get_existing_customers"} /\ run.final # <<>>) =>
        \A receipt_no \in ReceiptNumbers(run.file) :
           LET line == FirstLine(run.file, receipt_no)
               key == [receipt_no |-> receipt_no, date |-> line["Sale date"].day]
               lines == LinesOf(run.file, receipt_no)
               built == { n \in 1..Len(run.orders) :
                             run.orders[n].receipt_id.receipt_no = receipt_no }
           IN  (IsDate(line["Sale date"]) /\ LaterKeys(run.file, receipt_no) # {}) =>
                  /\ \A k \in 1..Len(run.calls) :
                        run.calls[k].op \in {"get_existing_receipts", "insert_orders"}
                            => Range(run.calls[k].batch)
                                   \cap LaterKeys(run.file, receipt_no) = {}
                  /\ \A n \in built : run.orders[n].receipt_id = key
                  /\ (OrdersBuilt /\ key \notin run.existing_receipt_ids) =>
                        /\ Cardinality(built) = 1
                        /\ \A n \in built :
                              /\ Len(run.orders[n].order_items) = Cardinality(lines)
                              /\ run.orders[n].total_amount = 6600 * Cardinality(lines)

\* A run of a file of two lines, receipt 1 on day 5 and receipt 1 on day 6,
\* has completed: the one order it built, keyed by day 5, holds both lines
\* and their 132.00, and is in the store.
C20_Witness ==
    /\ run.pc = "done"
    /\ Len(run.file.rows) = 2
    /\ ReceiptNumbers(run.file) = {1}
    /\ run.file.rows[1]["Sale date"] = [day |-> 5, time |-> time(13, 0)]
    /\ run.file.rows[2]["Sale date"] = [day |-> 6, time |-> time(9, 0)]
    /\ Len(run.orders) = 1
    /\ run.orders[1].receipt_id = [receipt_no |-> 1, date |-> 5]
    /\ Len(run.orders[1].order_items) = 2
    /\ run.orders[1].total_amount = 13200
    /\ [receipt_no |-> 1, date |-> 5] \in ReceiptKeys(orders_tbl)
    /\ [receipt_no |-> 1, date |-> 6] \notin ReceiptKeys(orders_tbl)

=============================================================================
